---- MODULE Spec2Model ----
(***************************************************************************)
(* The entity/component core of jelloscript: Component, GameObject,        *)
(* Collider, BoxCollider, the game timers and the destroy operation.       *)
(*                                                                         *)
(* Lengths are in tenths of a unit, so that minCollisionDistance (0.4) and *)
(* the half sizes of the boxes are integers.  The heap of the program is   *)
(* passed around as one record w ("world"); every method of the source is  *)
(* an operator from a world to a world, and an action commits the world    *)
(* its handler leaves behind.  All collision/destroy hooks are the no-op   *)
(* hooks of Component; a call leaves the callbacks it delivered in         *)
(* w.events, the axis steps of a position assignment in w.moveLog and the  *)
(* value updateCollision() returned in w.ret, the cancellations made by    *)
(* timer callbacks in w.cleared, and w.thrown tells whether it threw.      *)
(* Numbers are IEEE doubles in the source; the model keeps integers and    *)
(* rounds every sum to MantissaBits significant bits.                      *)
(***************************************************************************)
EXTENDS Integers, Sequences, FiniteSets, TLC

\* ------------------------------------------------------------- bounds
NumEntities == 2
NumColliders == 3
NumAnimators == 2
MaxLayer == 1
MaxCoord == 1
MaxDelay == 2
MaxTimers == 2
MaxDestroy == 2
MaxRounds == 4
MantissaBits == 9
MaxUnits == 2
NumSockets == 3
MaxLobbies == 2
MaxLimit == 2

\* ------------------------------------------------- program constants
\* Config.collisionIterations
collisionIterations == 1
\* Config.minCollisionDistance, 0.4, in tenths
minCollisionDistance == 4

Entities == 1..NumEntities
\* the Components that are not Entities: the Colliders, then the Animators
ColliderIds == 1..NumColliders
AnimatorIds == (NumColliders + 1)..(NumColliders + NumAnimators)
ComponentIds == ColliderIds \cup AnimatorIds
Layers == 0..MaxLayer
TimerIds == 0..(MaxTimers - 1)
Delays == 1..MaxDelay
\* undefined / null
Undefined == 0 - 1

Sockets == 1..NumSockets

Limits == 1..MaxLimit
\* the positions the scene uses: a grid whose pitch (1.8) is less than the
\* box size (2.0) and more than box size minus minCollisionDistance
Coords == {18 * i : i \in 0..MaxCoord}
Positions == [x : Coords, y : Coords]

COLLISION_CHECK_METHOD == [EVERY_FRAME |-> 0, ON_MOVED |-> 1, MANUAL |-> 2]

colliderTags == {"default", "background", "player", "playerMissile", "missile", "enemy"}

collisionIgnoreMatrix ==
    [default |-> {"background"},
     player |-> {"player", "playerMissile"},
     playerMissile |-> {"playerMissile"},
     enemy |-> {"missile"}]

\* ---------------------------------------------------------- the scene
\* Arguments the scene passes to the constructors (inputs of the model).
\* Collider c is created for Entity SceneOwner(c) with tag SceneTag(c).
SceneOwner(c) == ((c - 1) % NumEntities) + 1

SceneTag(c) ==
    CASE c % 3 = 1 -> "player"
      [] c % 3 = 2 -> "enemy"
      [] OTHER -> "playerMissile"

SceneMethod(c) ==
    IF c % 3 = 0 THEN COLLISION_CHECK_METHOD.EVERY_FRAME
    ELSE COLLISION_CHECK_METHOD.ON_MOVED

\* the sprite sheets of the scene, with the side of a cell of each
Sprites == {"ship", "thruster"}

NoSprite == "null"

SpriteSide(s) == IF s = "ship" THEN 16 ELSE 8

\* new Animator(gameObject, sprite, spriteRect): the sheet and the cell
\* animator a starts with
SceneSprite(a) == "ship"

SceneSpriteRect(a) == [x |-> 16 * (a - NumColliders), y |-> 0, w |-> 16, h |-> 16]

\* new BoxCollider(tag, [20, 20]): size, and the default offset [0, 0]
SceneSize(c) == [x |-> 20, y |-> 20]

SceneOffset(c) == [x |-> 0, y |-> 0]

VARIABLES
    gameObjects,      \* GameObject.js gameObjects: layer -> list of Entities
    updateLayer,      \* gameObject.updateLayer (Undefined before init)
    components,       \* gameObject.components
    goColliders,      \* gameObject._colliders
    animator,         \* gameObject._animator
    goEnabled,        \* gameObject._enabled
    parent,           \* gameObject.parent
    localPosition,    \* gameObject._localPosition
    colliders,        \* Collider.js colliders: the registry
    constructed,      \* the Colliders whose constructor has run
    gameObject,       \* component.gameObject
    isTrigger,        \* collider.isTrigger
    enabled,          \* component._enabled of each Collider and Animator
    collisions,       \* collider.collisions
    collisionCheckMethod, \* collider.collisionCheckMethod
    sprite,           \* gameObject._sprite
    spriteRect,       \* gameObject._spriteRect
    animatorSprite,   \* animator.sprite
    animatorSpriteRect, \* animator.spriteRect
    timers,           \* run.js timers: [id, intervals, timeouts]
    toDestoryObjects, \* Component.js toDestoryObjects: Entity id -> timer id
    onDestroyCalls,   \* history: onDestroy() invocations per Entity and Collider
    fired,            \* history: invocations of each user timeout callback
    timerLog,         \* history: per timer id, its delay and the rounds of
                      \* UpdateTimers since it was scheduled
    destroyLog,       \* history: per Entity, the delays destroy was called with
    last,             \* history: the last operation, if it was a destroy
    lobbies,          \* jelloLobby.js Lobby.lobbies: id -> [host, limit, controllers]
    currentLobby,     \* currentLobby of each socket's onConnect closure
    rooms,            \* socket.rooms: the lobbies whose room the socket is in
    connected,        \* whether the socket is connected
    currentLogLevel,  \* jelloLobby.js currentLogLevel
    clientControllers, \* clientControllers of each socket's onConnect closure
    probe             \* the arguments and the results of a call of a function

vars == <<gameObjects, updateLayer, components, goColliders, animator,
          goEnabled, parent, localPosition,
          colliders, constructed, gameObject, isTrigger, enabled, collisions,
          collisionCheckMethod,
          sprite, spriteRect, animatorSprite, animatorSpriteRect,
          timers, toDestoryObjects, onDestroyCalls, fired, timerLog,
          destroyLog, last, lobbies, currentLobby, rooms, connected,
          currentLogLevel, clientControllers, probe>>

\* no callback of the game destroys anything
NoScript == [killer |-> Undefined, victim |-> Undefined]

\* The heap as one record, with the outputs of a call: events, moveLog, ret,
\* visited (the registry entries a collision pass read) and, as input of a
\* call, onEnter: what the enter callbacks of the game do during it.
World ==
    [gameObjects |-> gameObjects, updateLayer |-> updateLayer,
     components |-> components, goColliders |-> goColliders,
     animator |-> animator, goEnabled |-> goEnabled, parent |-> parent,
     localPosition |-> localPosition, colliders |-> colliders,
     constructed |-> constructed, gameObject |-> gameObject,
     isTrigger |-> isTrigger, enabled |-> enabled, collisions |-> collisions,
     collisionCheckMethod |-> collisionCheckMethod,
     sprite |-> sprite, spriteRect |-> spriteRect,
     animatorSprite |-> animatorSprite, animatorSpriteRect |-> animatorSpriteRect,
     timers |-> timers, toDestoryObjects |-> toDestoryObjects,
     onDestroyCalls |-> onDestroyCalls, fired |-> fired,
     events |-> <<>>, moveLog |-> <<>>, ret |-> FALSE, cleared |-> <<>>,
     thrown |-> FALSE, visited |-> <<>>, onEnter |-> NoScript]

Commit(w) ==
    /\ gameObjects' = w.gameObjects
    /\ updateLayer' = w.updateLayer
    /\ components' = w.components
    /\ goColliders' = w.goColliders
    /\ animator' = w.animator
    /\ goEnabled' = w.goEnabled
    /\ parent' = w.parent
    /\ localPosition' = w.localPosition
    /\ colliders' = w.colliders
    /\ constructed' = w.constructed
    /\ gameObject' = w.gameObject
    /\ isTrigger' = w.isTrigger
    /\ enabled' = w.enabled
    /\ collisions' = w.collisions
    /\ collisionCheckMethod' = w.collisionCheckMethod
    /\ sprite' = w.sprite
    /\ spriteRect' = w.spriteRect
    /\ animatorSprite' = w.animatorSprite
    /\ animatorSpriteRect' = w.animatorSpriteRect
    /\ timers' = w.timers
    /\ toDestoryObjects' = w.toDestoryObjects
    /\ onDestroyCalls' = w.onDestroyCalls
    /\ fired' = w.fired
    /\ UNCHANGED <<lobbies, currentLobby, rooms, connected, currentLogLevel,
                   clientControllers, probe>>

NoDestroy == [op |-> "other"]

NoProbe == [op |-> "none"]

\* ------------------------------------------------------ Array helpers
\* Array.prototype.indexOf, 0-based, -1 when absent
RECURSIVE IndexFrom(_, _, _)
IndexFrom(s, x, i) ==
    IF i > Len(s) THEN 0 - 1
    ELSE IF s[i] = x THEN i - 1
    ELSE IndexFrom(s, x, i + 1)

indexOf(s, x) == IndexFrom(s, x, 1)

includes(s, x) == \E i \in 1..Len(s) : s[i] = x

\* Array.prototype.splice(start, 1): a negative start counts from the end
splice(s, start) ==
    LET from == IF start < 0
                THEN (IF Len(s) + start < 0 THEN 0 ELSE Len(s) + start)
                ELSE start
    IN IF from >= Len(s) THEN s
       ELSE [i \in 1..(Len(s) - 1) |-> IF i <= from THEN s[i] ELSE s[i + 1]]

Range(s) == {s[i] : i \in 1..Len(s)}

\* ------------------------------------------------------------ Number
RECURSIVE Pow2(_)
Pow2(n) == IF n = 0 THEN 1 ELSE 2 * Pow2(n - 1)

\* the integers up to Exact are all representable
Exact == Pow2(MantissaBits)

\* the spacing of the representable numbers around m > Exact
RECURSIVE Ulp(_, _)
Ulp(m, u) == IF m <= Exact * u THEN u ELSE Ulp(m, 2 * u)

\* round m >= 0 to the nearest representable number, ties to even
RoundPositive(m) ==
    IF m <= Exact THEN m
    ELSE LET u == Ulp(m, 2)
             q == m \div u
             r == m % u
         IN IF 2 * r < u THEN q * u
            ELSE IF 2 * r > u THEN (q + 1) * u
            ELSE IF q % 2 = 0 THEN q * u
            ELSE (q + 1) * u

\* the Number an arithmetic operation returns for the exact result n
fl(n) == IF n < 0 THEN 0 - RoundPositive(0 - n) ELSE RoundPositive(n)

\* ------------------------------------------------------------ Struct
\* Vector2.add
add(a, b) == [x |-> fl(a.x + b.x), y |-> fl(a.y + b.y)]

\* Vector2.negate
negate(a) == [x |-> 0 - a.x, y |-> 0 - a.y]

\* Vector2.substract
substract(a, b) == add(a, negate(b))

\* Vector2.divide; the model only divides the tenths it can divide exactly
divide(a, n) == [x |-> a.x \div n, y |-> a.y \div n]

\* Vector2.equals
vectorEquals(a, b) == a.x = b.x /\ a.y = b.y

\* Rect accessors
minX(r) == r.x

minY(r) == r.y

maxX(r) == fl(r.x + r.w)

maxY(r) == fl(r.y + r.h)

\* -------------------------------------------------------- GameObject
\* get position()
RECURSIVE position(_, _)
position(w, e) ==
    IF w.parent[e] = Undefined THEN w.localPosition[e]
    ELSE add(position(w, w.parent[e]), w.localPosition[e])

\* ------------------------------------------------------- BoxCollider
\* the Rect get bounds() builds for a collider whose resizeWithParent is
\* unset, from gameObject.position, this.size and this.offset
boundsAt(at, size, offset) ==
    LET pos == add(substract(at, divide(size, 2)), offset)
    IN [x |-> pos.x, y |-> pos.y, w |-> size.x, h |-> size.y]

\* get bounds()
bounds(w, c) == boundsAt(position(w, w.gameObject[c]), SceneSize(c), SceneOffset(c))

\* mutant of intersects: the rects are inflated by minCollisionDistance
intersectsInflated(a, b) ==
    ~(\/ minX(a) > fl(maxX(b) + minCollisionDistance)
      \/ minY(a) > fl(maxY(b) + minCollisionDistance)
      \/ minX(b) > fl(maxX(a) + minCollisionDistance)
      \/ minY(b) > fl(maxY(a) + minCollisionDistance))

\* BoxCollider.intersects
intersects(a, b) ==
    ~(\/ fl(minX(a) + minCollisionDistance) >= maxX(b)
      \/ fl(minY(a) + minCollisionDistance) >= maxY(b)
      \/ fl(minX(b) + minCollisionDistance) >= maxX(a)
      \/ fl(minY(b) + minCollisionDistance) >= maxY(a))

\* BoxCollider.collides: every Collider of the scene is a BoxCollider
collides(w, this, other) == intersects(bounds(w, this), bounds(w, other))

\* ---------------------------------------------------------- Collider
\* get ignoreTagMatrix(): undefined (here the empty list) for a tag
\* without an entry
ignoreTagMatrix(tag) ==
    IF tag \in DOMAIN collisionIgnoreMatrix THEN collisionIgnoreMatrix[tag] ELSE {}

\* mutant of tagsIgnore: only the first Collider's list is consulted
tagsIgnoreOneSided(aTag, bTag) ==
    aTag \in DOMAIN collisionIgnoreMatrix /\ bTag \in collisionIgnoreMatrix[aTag]

\* the expression Collider.isIgnoredByTags returns, on the two tags: a
\* list is consulted only if the tag has an entry (aMatrix != null)
tagsIgnore(aTag, bTag) ==
    \/ aTag \in DOMAIN collisionIgnoreMatrix /\ bTag \in collisionIgnoreMatrix[aTag]
    \/ bTag \in DOMAIN collisionIgnoreMatrix /\ aTag \in collisionIgnoreMatrix[bTag]

\* Collider.isIgnoredByTags
isIgnoredByTags(a, b) == tagsIgnore(SceneTag(a), SceneTag(b))

\* Collider.canCollide
canCollide(w, this, other) ==
    w.enabled[this] /\ w.enabled[other] /\ ~isIgnoredByTags(this, other)

\* mutant of callbackFamily: the other Collider's flag selects the family
callbackFamilyOfOther(w, this, other) == w.isTrigger[other]

\* the test  this.isTrigger  of _onCollisionStart, _onCollisionStay and
\* _onCollisionStop: TRUE selects onTrigger*, FALSE onCollision*
callbackFamily(w, this, other) == w.isTrigger[this]

\* whom the three methods call, in order: this.gameObject, then every c
\* of this.gameObject.components with c != this
receivers(w, this) ==
    [gameObject |-> w.gameObject[this],
     components |-> SelectSeq(w.components[w.gameObject[this]], LAMBDA c : c # this)]

\* One callback family delivered to this.gameObject and to its other
\* components: "Enter", "Stay" or "Exit", onTrigger* or onCollision*.
Notify(w, kind, this, other) ==
    [w EXCEPT !.events = Append(@, [kind |-> kind,
                                      trigger |-> callbackFamily(w, this, other),
                                      on |-> this, other |-> other,
                                      to |-> receivers(w, this),
                                      set |-> w.collisions[this]])]

\* a hook of Component invoked on component c; sees is what c.enabled
\* reads inside the hook
Hook(w, kind, c) ==
    [w EXCEPT !.events = Append(@, [kind |-> kind, trigger |-> FALSE, on |-> c,
                                      other |-> Undefined, sees |-> w.enabled[c]])]

\* a hook of Component invoked on Entity e
EntityHook(w, kind, e) ==
    [w EXCEPT !.events = Append(@, [kind |-> kind, trigger |-> FALSE, on |-> e,
                                      other |-> Undefined, sees |-> w.goEnabled[e]])]

\* Collider._onCollisionStop
onCollisionStop(w, this, other) ==
    Notify([w EXCEPT !.collisions[this] = splice(@, indexOf(@, other))],
           "Exit", this, other)

\* mutant of onCollisionStart: the overlap is not recorded
onCollisionStartUnrecorded(w, this, other) == Notify(w, "Enter", this, other)

\* Component.destroy, defined with the Timer Service it uses
RECURSIVE destroy(_, _, _)

\* gameObject.onCollisionEnter(other) / gameObject.onTriggerEnter(other) of
\* the game: the Entity w.onEnter.killer destroys w.onEnter.victim, as
\* Missile.onTriggerEnter destroys the missile and Ship.hit the ship
enterCallback(w, this, other) ==
    IF w.onEnter.killer = w.gameObject[this]
    THEN destroy(w, w.onEnter.victim, 0) ELSE w

\* Collider._onCollisionStart
onCollisionStart(w, this, other) ==
    enterCallback(Notify([w EXCEPT !.collisions[this] = Append(@, other)],
                         "Enter", this, other),
                  this, other)

\* Collider._onCollisionStay
onCollisionStay(w, this, other) == Notify(w, "Stay", this, other)

\* mutant of blocking: the caller's own trigger flag is not looked at
blockingIgnoresOwnTrigger(w, this, other) == ~w.isTrigger[other]

\* the value updateCollision() assigns to collide for a colliding pair
blocking(w, this, other) == ~w.isTrigger[this] /\ ~w.isTrigger[other]

\* the body of updateCollision()'s loop, from the i-th registry entry on;
\* collide is the local variable
RECURSIVE updateCollisionFrom(_, _, _, _)
updateCollisionFrom(w, this, i, collide) ==
    IF i > Len(w.colliders) THEN [w EXCEPT !.ret = collide]
    ELSE
      LET other == w.colliders[i]
          contains == includes(w.collisions[this], other)
          v == [w EXCEPT !.visited = Append(@, other)]
      IN IF v.gameObject[other] = v.gameObject[this]
         THEN updateCollisionFrom(v, this, i + 1, collide)
         ELSE IF canCollide(v, this, other) /\ collides(v, this, other)
         THEN updateCollisionFrom(
                  IF ~contains THEN onCollisionStart(v, this, other)
                  ELSE onCollisionStay(v, this, other),
                  this, i + 1, blocking(v, this, other))
         ELSE IF contains
         THEN updateCollisionFrom(onCollisionStop(v, this, other), this, i + 1, collide)
         ELSE updateCollisionFrom(v, this, i + 1, collide)

\* Collider.updateCollision
updateCollision(w, this) == updateCollisionFrom(w, this, 1, FALSE)

\* the loop of Collider.onDisabled and of Collider.onDestroy over
\* this.collisions, from its i-th entry on
RECURSIVE stopPartnersFrom(_, _, _)
stopPartnersFrom(w, this, i) ==
    IF i > Len(w.collisions[this]) THEN w
    ELSE stopPartnersFrom(onCollisionStop(w, w.collisions[this][i], this), this, i + 1)

\* Collider.onDisabled
onDisabled(w, this) == stopPartnersFrom(w, this, 1)

\* mutant of colliderOnDestroy: the Collider stays in the registry
colliderOnDestroyKeepsRegistered(w, this) ==
    LET w1 == stopPartnersFrom(Hook(w, "onDestroy", this), this, 1)
    IN [w1 EXCEPT !.onDestroyCalls.col[this] = @ + 1]

\* Collider.onDestroy
colliderOnDestroy(w, this) ==
    LET w1 == stopPartnersFrom(Hook(w, "onDestroy", this), this, 1)
    IN [w1 EXCEPT !.colliders = splice(@, indexOf(@, this)),
                  !.onDestroyCalls.col[this] = @ + 1]

\* Component.onDestroy, the no-op an Animator inherits
componentOnDestroy(w, this) ==
    [Hook(w, "onDestroy", this) EXCEPT !.onDestroyCalls.col[this] = @ + 1]

\* -------------------------------------------------------- GameObject
\* mutant of isCheckedOnMove: every Collider is checked
isCheckedOnMoveAlways(w, col) == TRUE

\* the test  col.collisionCheckMethod == COLLISION_CHECK_METHOD.ON_MOVED
isCheckedOnMove(w, col) ==
    w.collisionCheckMethod[col] = COLLISION_CHECK_METHOD.ON_MOVED

\* the loop of collisionCheck over obj._colliders, from its i-th entry on:
\* the world after the loop, with .ret telling whether a collider blocked
RECURSIVE collidersBlockFrom(_, _, _)
collidersBlockFrom(w, obj, i) ==
    IF i > Len(w.goColliders[obj]) THEN [w EXCEPT !.ret = FALSE]
    ELSE
      LET col == w.goColliders[obj][i]
      IN IF isCheckedOnMove(w, col)
         THEN LET w1 == updateCollision(w, col)
              IN IF w1.ret THEN w1 ELSE collidersBlockFrom(w1, obj, i + 1)
         ELSE collidersBlockFrom(w, obj, i + 1)

\* mutant of resolveStep: a blocked step is not rolled back
resolveStepKeepsBlocked(w, obj, lastPosition, blocked) == w

\* what collisionCheck does with the report of its colliders
resolveStep(w, obj, lastPosition, blocked) ==
    IF blocked THEN [w EXCEPT !.localPosition[obj] = lastPosition] ELSE w

\* collisionCheck(obj, deltaX, deltaY) of the position setter
collisionCheck(w, obj, deltaX, deltaY) ==
    LET lastPosition == w.localPosition[obj]
        w1 == [w EXCEPT !.localPosition[obj] = add(@, [x |-> deltaX, y |-> deltaY])]
        w2 == collidersBlockFrom(w1, obj, 1)
        w3 == resolveStep(w2, obj, lastPosition, w2.ret)
    IN [w3 EXCEPT !.moveLog = Append(@, [dx |-> deltaX, dy |-> deltaY,
                                           from |-> lastPosition,
                                           blocked |-> w2.ret,
                                           to |-> w3.localPosition[obj]])]

\* mutant of moveSteps: a blocked axis step ends the whole call
RECURSIVE moveStepsAborting(_, _, _, _)
moveStepsAborting(w, obj, deltaStep, step) ==
    IF step >= collisionIterations THEN w
    ELSE LET w1 == collisionCheck(w, obj, deltaStep.x, 0)
             w2 == collisionCheck(w1, obj, 0, deltaStep.y)
         IN IF w1.moveLog[Len(w1.moveLog)].blocked THEN w1
            ELSE IF w2.moveLog[Len(w2.moveLog)].blocked THEN w2
            ELSE moveStepsAborting(w2, obj, deltaStep, step + 1)

\* the iteration loop of the position setter, from step on
RECURSIVE moveSteps(_, _, _, _)
moveSteps(w, obj, deltaStep, step) ==
    IF step >= collisionIterations THEN w
    ELSE moveSteps(collisionCheck(collisionCheck(w, obj, deltaStep.x, 0),
                                  obj, 0, deltaStep.y),
                   obj, deltaStep, step + 1)

\* set position(value)
setPosition(w, obj, value) ==
    LET currentPosition == position(w, obj)
        delta == substract(value, currentPosition)
    IN IF vectorEquals(currentPosition, value) THEN w
       ELSE IF Len(w.goColliders[obj]) = 0
       THEN [w EXCEPT !.localPosition[obj] = add(@, delta)]
       ELSE moveSteps(w, obj, divide(delta, collisionIterations), 0)

\* mutant of animatorConflict: a second Animator is accepted
animatorConflictNever(w, obj) == FALSE

\* the test  this._animator == null  of addComponent, negated
animatorConflict(w, obj) == w.animator[obj] # Undefined

\* GameObject.addComponent; the throw leaves w.thrown set
addComponent(w, obj, component) ==
    IF component \in AnimatorIds /\ animatorConflict(w, obj)
    THEN [w EXCEPT !.thrown = TRUE]
    ELSE
      LET w1 == IF component \in AnimatorIds
                THEN [w EXCEPT !.animator[obj] = component] ELSE w
          w2 == IF component \in ColliderIds
                THEN [w1 EXCEPT !.goColliders[obj] = Append(@, component)] ELSE w1
      IN [w2 EXCEPT !.gameObject[component] = obj,
                    !.components[obj] = Append(@, component)]

\* GameObject.removeComponent
removeComponent(w, obj, component) ==
    LET w1 == IF component \in ColliderIds
              THEN [w EXCEPT !.goColliders[obj] = splice(@, indexOf(@, component))]
              ELSE w
    IN [w1 EXCEPT !.components[obj] = splice(@, indexOf(@, component))]

\* Sprite.getSpriteRect(0, 0)
getSpriteRect(s) == [x |-> 0, y |-> 0, w |-> SpriteSide(s), h |-> SpriteSide(s)]

\* get sprite()
getSprite(w, obj) ==
    IF w.animator[obj] = Undefined THEN w.sprite[obj]
    ELSE w.animatorSprite[w.animator[obj]]

\* set sprite(sprite)
setSprite(w, obj, s) ==
    [w EXCEPT !.spriteRect[obj] = getSpriteRect(s), !.sprite[obj] = s]

\* get spriteRect()
spriteRectOf(w, obj) ==
    IF w.animator[obj] = Undefined THEN w.spriteRect[obj]
    ELSE w.animatorSpriteRect[w.animator[obj]]

\* set spriteRect(spriteRect)
setSpriteRect(w, obj, r) == [w EXCEPT !.spriteRect[obj] = r]

\* GameObject.init
init(w, object, layer) ==
    [w EXCEPT !.updateLayer[object] = layer,
              !.gameObjects[layer] = Append(@, object)]

\* ------------------------------------------------------------- Utils
\* setGameTimeout: the id is left in w.ret by the caller
setGameTimeout(w, callback, delay) ==
    LET id == w.timers.id
    IN [w EXCEPT !.timers.id = id + 1,
                 !.timers.timeouts =
                     [i \in DOMAIN @ \cup {id} |->
                        IF i = id THEN [callback |-> callback, current_delay |-> delay]
                        ELSE @[i]]]

\* mutant of clearGameTimeout: the entry is left in the table
clearGameTimeoutKeeps(w, timeout) == w

\* clearGameTimeout
clearGameTimeout(w, timeout) ==
    [w EXCEPT !.timers.timeouts = [i \in DOMAIN @ \ {timeout} |-> @[i]]]

\* setGameInterval
setGameInterval(w, callback, delay) ==
    LET id == w.timers.id
    IN [w EXCEPT !.timers.id = id + 1,
                 !.timers.intervals =
                     [i \in DOMAIN @ \cup {id} |->
                        IF i = id THEN [callback |-> callback, delay |-> delay,
                                        current_delay |-> delay]
                        ELSE @[i]]]

\* clearGameInterval
clearGameInterval(w, interval) ==
    [w EXCEPT !.timers.intervals = [i \in DOMAIN @ \ {interval} |-> @[i]]]

\* --------------------------------------------------------- Component
\* the test  if (toDestoryObjects[gameObject.id])  of des: an absent
\* entry and the id 0 are both falsy
hasPendingDestroy(w, obj) ==
    w.toDestoryObjects[obj] # Undefined /\ w.toDestoryObjects[obj] # 0

\* the loop of des over gameObject.components, from its i-th entry on
RECURSIVE componentsOnDestroyFrom(_, _, _)
componentsOnDestroyFrom(w, obj, i) ==
    IF i > Len(w.components[obj]) THEN w
    ELSE
      LET component == w.components[obj][i]
      IN componentsOnDestroyFrom(
             IF component \in ColliderIds THEN colliderOnDestroy(w, component)
             ELSE componentOnDestroy(w, component),
             obj, i + 1)

\* the closure des of Component.destroy
des(w, obj) ==
    LET w1 == IF hasPendingDestroy(w, obj)
              THEN clearGameTimeout(w, w.toDestoryObjects[obj]) ELSE w
        w2 == [w1 EXCEPT !.toDestoryObjects[obj] = Undefined]
        layer == w2.updateLayer[obj]
        w3 == [w2 EXCEPT !.gameObjects[layer] = splice(@, indexOf(@, obj))]
        w4 == componentsOnDestroyFrom(w3, obj, 1)
    IN [EntityHook(w4, "entity.onDestroy", obj) EXCEPT !.onDestroyCalls.go[obj] = @ + 1]

\* Component.destroy(object, delay)
destroy(w, obj, delay) ==
    IF delay <= 0 THEN des(w, obj)
    ELSE [setGameTimeout(w, [kind |-> "des", obj |-> obj], delay)
            EXCEPT !.toDestoryObjects[obj] = w.timers.id]

\* mutant of enabledChanges: every assignment counts as a change
enabledChangesAlways(w, c, value) == TRUE

\* the test  if(this._enabled != enabled)  of the enabled setter
enabledChanges(w, c, value) == w.enabled[c] # value

\* c.onEnabled(): the no-op of Component
callOnEnabled(w, c) == Hook(w, "onEnabled", c)

\* c.onDisabled(): Collider.onDisabled, or the no-op of Component
callOnDisabled(w, c) ==
    LET w1 == Hook(w, "onDisabled", c)
    IN IF c \in ColliderIds THEN onDisabled(w1, c) ELSE w1

\* Component.enabled setter
setEnabled(w, c, value) ==
    LET w1 == IF enabledChanges(w, c, value)
              THEN (IF value THEN callOnEnabled(w, c) ELSE callOnDisabled(w, c))
              ELSE w
    IN [w1 EXCEPT !.enabled[c] = value]

\* the loop of the GameObject.enabled setter over this.components, from
\* its i-th entry on
RECURSIVE componentsHookFrom(_, _, _, _)
componentsHookFrom(w, obj, value, i) ==
    IF i > Len(w.components[obj]) THEN w
    ELSE
      LET c == w.components[obj][i]
      IN componentsHookFrom(IF value THEN callOnEnabled(w, c) ELSE callOnDisabled(w, c),
                            obj, value, i + 1)

\* GameObject.enabled setter
setGameObjectEnabled(w, obj, value) ==
    IF value = w.goEnabled[obj] THEN w
    ELSE
      LET w1 == EntityHook(w, IF value THEN "entity.onEnabled" ELSE "entity.onDisabled", obj)
          w2 == componentsHookFrom(w1, obj, value, 1)
      IN [w2 EXCEPT !.goEnabled[obj] = value]

\* ---------------------------------------------------------------- run
\* a cancellation made by the callback of timer id, as the callback sees
\* it: how often the target has fired and the delay it has left
Cancellation(w, id, table, target) ==
    [table |-> table, target |-> target, by |-> id,
     at |-> IF target \in DOMAIN w.fired THEN w.fired[target] ELSE 0,
     left |-> IF target \in DOMAIN w.timers[table]
              THEN w.timers[table][target].current_delay ELSE 0]

\* invoke a timer callback: the closure of destroy, or a callback of the
\* game, which counts its invocations and then does nothing more ("user"),
\* calls clearGameTimeout(obj) or calls clearGameInterval(obj)
invoke(w, id, callback) ==
    IF callback.kind = "des" THEN des(w, callback.obj)
    ELSE
      LET w1 == [w EXCEPT !.fired[id] = @ + 1]
      IN IF callback.kind = "clearTimeout"
         THEN [clearGameTimeout(w1, callback.obj)
                 EXCEPT !.cleared = Append(@, Cancellation(w1, id, "timeouts", callback.obj))]
         ELSE IF callback.kind = "clearInterval"
         THEN [clearGameInterval(w1, callback.obj)
                 EXCEPT !.cleared = Append(@, Cancellation(w1, id, "intervals", callback.obj))]
         ELSE w1

\* mutant of intervalIsDue: fires one round late
intervalIsDueLate(current_delay) == current_delay < 0

\* the test  if (timer.current_delay <= 0)  of UpdateTimers
intervalIsDue(current_delay) == current_delay <= 0

\* the for-in loop of UpdateTimers over timers.intervals: ids in ascending
\* order, an entry deleted before it is reached is not visited
RECURSIVE updateIntervalsFrom(_, _)
updateIntervalsFrom(w, id) ==
    IF id >= w.timers.id THEN w
    ELSE IF id \notin DOMAIN w.timers.intervals
    THEN updateIntervalsFrom(w, id + 1)
    ELSE
      LET timer == w.timers.intervals[id]
      IN IF intervalIsDue(timer.current_delay - 1)
         THEN updateIntervalsFrom(
                  invoke([w EXCEPT !.timers.intervals[id].current_delay = timer.delay],
                         id, timer.callback),
                  id + 1)
         ELSE updateIntervalsFrom(
                  [w EXCEPT !.timers.intervals[id].current_delay = @ - 1], id + 1)

\* mutant of isDue: fires one round late
isDueLate(current_delay) == current_delay < 0

\* the test  if (timeout.current_delay <= 0)  of UpdateTimers
isDue(current_delay) == current_delay <= 0

\* the for-in loop of UpdateTimers over timers.timeouts: ids in ascending
\* order, an entry deleted before it is reached is not visited
RECURSIVE updateTimeoutsFrom(_, _, _)
updateTimeoutsFrom(w, id, toDelete) ==
    IF id >= w.timers.id
    THEN [w EXCEPT !.timers.timeouts = [i \in DOMAIN @ \ toDelete |-> @[i]]]
    ELSE IF id \notin DOMAIN w.timers.timeouts
    THEN updateTimeoutsFrom(w, id + 1, toDelete)
    ELSE
      LET timeout == w.timers.timeouts[id]
          w1 == [w EXCEPT !.timers.timeouts[id].current_delay = @ - 1]
      IN IF isDue(timeout.current_delay - 1)
         THEN updateTimeoutsFrom(invoke(w1, id, timeout.callback), id + 1,
                                 toDelete \cup {id})
         ELSE updateTimeoutsFrom(w1, id + 1, toDelete)

\* what the update hooks of the game do in one tick: nothing, or the
\* update of Entity killer calls destroy(victim)
Scripts == {NoScript} \cup [killer : Entities, victim : Entities]

\* mutant of unitIsUpdated: disabled units are updated too
unitIsUpdatedAlways(w, component) == TRUE

\* the test  if (component.enabled)  of GameObject.tick
unitIsUpdated(w, component) == w.enabled[component]

\* the loop of GameObject.tick over this.components, from its i-th entry on
RECURSIVE componentsUpdateFrom(_, _, _)
componentsUpdateFrom(w, obj, i) ==
    IF i > Len(w.components[obj]) THEN w
    ELSE
      LET component == w.components[obj][i]
      IN componentsUpdateFrom(
             IF unitIsUpdated(w, component) THEN Hook(w, "update", component) ELSE w,
             obj, i + 1)

\* this.update(tick) of an Entity: the hook of the game
entityUpdate(w, obj, script) ==
    LET w1 == EntityHook(w, "entity.update", obj)
    IN IF script.killer = obj THEN destroy(w1, script.victim, 0) ELSE w1

\* GameObject.tick
tick(w, obj, script) == componentsUpdateFrom(entityUpdate(w, obj, script), obj, 1)

\* the loop  for (const gameObject of layer)  of Update: the array iterator
\* reads layer[i] and layer.length anew at every step
RECURSIVE updateObjectsFrom(_, _, _, _)
updateObjectsFrom(w, script, layer, i) ==
    IF i > Len(w.gameObjects[layer]) THEN w
    ELSE
      LET obj == w.gameObjects[layer][i]
      IN updateObjectsFrom(IF w.goEnabled[obj] THEN tick(w, obj, script) ELSE w,
                           script, layer, i + 1)

\* the loop  for (let layer of gameObjects)  of Update, from layer on
RECURSIVE updateLayersFrom(_, _, _)
updateLayersFrom(w, script, layer) ==
    IF layer > MaxLayer THEN w
    ELSE updateLayersFrom(updateObjectsFrom(w, script, layer, 1), script, layer + 1)

\* Update
update(w, script) == updateLayersFrom(w, script, 0)

\* UpdateTimers
updateTimers(w) == updateTimeoutsFrom(updateIntervalsFrom(w, 0), 0, {})

\* ----------------------------------------------------------- actions
InitHeap ==
    /\ gameObjects = [l \in Layers |-> <<>>]
    /\ updateLayer = [e \in Entities |-> Undefined]
    /\ components = [e \in Entities |-> <<>>]
    /\ goColliders = [e \in Entities |-> <<>>]
    /\ animator = [e \in Entities |-> Undefined]
    /\ goEnabled = [e \in Entities |-> TRUE]
    /\ parent = [e \in Entities |-> Undefined]
    /\ localPosition = [e \in Entities |-> [x |-> 0, y |-> 0]]
    /\ colliders = <<>>
    /\ constructed = {}
    /\ gameObject = [c \in ComponentIds |-> Undefined]
    /\ isTrigger = [c \in ColliderIds |-> FALSE]
    /\ enabled = [c \in ComponentIds |-> TRUE]
    /\ collisions = [c \in ColliderIds |-> <<>>]
    /\ collisionCheckMethod = [c \in ColliderIds |-> COLLISION_CHECK_METHOD.ON_MOVED]
    /\ sprite = [e \in Entities |-> NoSprite]
    /\ spriteRect = [e \in Entities |-> [x |-> 0, y |-> 0, w |-> 1, h |-> 1]]
    /\ animatorSprite = [a \in AnimatorIds |-> NoSprite]
    /\ animatorSpriteRect = [a \in AnimatorIds |-> [x |-> 0, y |-> 0, w |-> 1, h |-> 1]]
    /\ timers = [id |-> 0, intervals |-> [i \in {} |-> 0],
                 timeouts |-> [i \in {} |-> 0]]
    /\ toDestoryObjects = [e \in Entities |-> Undefined]
    /\ onDestroyCalls = [go |-> [e \in Entities |-> 0], col |-> [c \in ComponentIds |-> 0]]
    /\ fired = [i \in TimerIds |-> 0]
    /\ timerLog = [i \in {} |-> 0]
    /\ destroyLog = [e \in Entities |-> <<>>]
    /\ last = NoDestroy
    /\ lobbies = <<>>
    /\ currentLobby = [s \in Sockets |-> Undefined]
    /\ rooms = [s \in Sockets |-> {}]
    /\ connected = [s \in Sockets |-> TRUE]
    /\ currentLogLevel = 1
    /\ clientControllers = [s \in Sockets |-> <<>>]

Init == InitHeap /\ probe = NoProbe

\* gameObject.addComponent(new BoxCollider(tag, size, offset, isTrigger)),
\* the statement every Entity of the repository creates its Collider with:
\* the constructors of Component, Collider and BoxCollider, then
\* addComponent.  The scene gives no Collider to an Entity it has destroyed.
AddColliderWith(c, trigger, method) ==
    /\ c \notin constructed
    /\ onDestroyCalls.go[SceneOwner(c)] = 0
    /\ Commit(addComponent([World EXCEPT !.constructed = @ \cup {c},
                                         !.isTrigger[c] = trigger,
                                         !.collisionCheckMethod[c] = method,
                                         !.enabled[c] = TRUE,
                                         !.collisions[c] = <<>>,
                                         !.colliders = Append(@, c)],
                           SceneOwner(c), c))
    /\ last' = NoDestroy
    /\ UNCHANGED <<timerLog, destroyLog>>

\* the same statement with the collisionCheckMethod the scene gives c
AddCollider(c, trigger) == AddColliderWith(c, trigger, SceneMethod(c))

\* gameObject.addComponent(new Animator(gameObject, sprite, spriteRect)):
\* the constructors of Component and Animator, then addComponent, which
\* may throw
AddAnimator(a, e) ==
    /\ gameObject[a] = Undefined
    /\ onDestroyCalls.go[e] = 0
    /\ Commit(addComponent([World EXCEPT !.gameObject[a] = e,
                                         !.enabled[a] = TRUE,
                                         !.animatorSprite[a] = SceneSprite(a),
                                         !.animatorSpriteRect[a] = SceneSpriteRect(a)],
                           e, a))
    /\ last' = NoDestroy
    /\ UNCHANGED <<timerLog, destroyLog>>

\* e is p or an ancestor of p
RECURSIVE IsAncestor(_, _)
IsAncestor(e, p) ==
    \/ e = p
    \/ parent[p] # Undefined /\ IsAncestor(e, parent[p])

\* this.parent = parent, in the constructor of a child Entity
SetParent(e, p) ==
    /\ parent[e] = Undefined
    /\ ~IsAncestor(e, p)
    /\ Commit([World EXCEPT !.parent[e] = p])
    /\ last' = NoDestroy
    /\ UNCHANGED <<timerLog, destroyLog>>

\* GameObject.init(object, layer)
GameObjectInit(e, layer) ==
    /\ updateLayer[e] = Undefined
    /\ Commit(init(World, e, layer))
    /\ last' = NoDestroy
    /\ UNCHANGED <<timerLog, destroyLog>>

\* gameObject.position = value
SetPosition(e, value) ==
    /\ Commit(setPosition(World, e, value))
    /\ last' = NoDestroy
    /\ UNCHANGED <<timerLog, destroyLog>>

\* collider.updateCollision()
UpdateCollision(c) ==
    /\ c \in constructed
    /\ Commit(updateCollision(World, c))
    /\ last' = NoDestroy
    /\ UNCHANGED <<timerLog, destroyLog>>

\* gameObject.enabled = value
SetGameObjectEnabled(e, value) ==
    /\ Commit(setGameObjectEnabled(World, e, value))
    /\ last' = NoDestroy
    /\ UNCHANGED <<timerLog, destroyLog>>

\* component.enabled = value
SetEnabled(c, value) ==
    /\ gameObject[c] # Undefined
    /\ Commit(setEnabled(World, c, value))
    /\ last' = NoDestroy
    /\ UNCHANGED <<timerLog, destroyLog>>

\* the timers that hold the closure des of Entity e
DestroyTimers(w, e) ==
    {id \in DOMAIN w.timers.timeouts :
        w.timers.timeouts[id].callback = [kind |-> "des", obj |-> e]}

\* what a program observes of the population
Observable(w) ==
    [gameObjects |-> w.gameObjects, colliders |-> w.colliders,
     onDestroyCalls |-> w.onDestroyCalls]

\* no cancellation
NoCancel == [table |-> "none", target |-> Undefined, by |-> Undefined,
             at |-> 0, left |-> 0]

LogTimer(id, kind, delay) ==
    [i \in DOMAIN timerLog \cup {id} |->
        IF i = id THEN [kind |-> kind, delay |-> delay, rounds |-> 0,
                        cancel |-> NoCancel]
        ELSE timerLog[i]]

\* the table a logged timer lives in
TableOf(kind) == IF kind = "interval" THEN "intervals" ELSE "timeouts"

\* the log after the cancellations cleared[i..]: a timer keeps the first
\* cancellation made for it
RECURSIVE NoteCancellations(_, _, _)
NoteCancellations(log, cleared, i) ==
    IF i > Len(cleared) THEN log
    ELSE
      LET c == cleared[i]
          hit == /\ c.target \in DOMAIN log
                 /\ TableOf(log[c.target].kind) = c.table
                 /\ log[c.target].cancel = NoCancel
      IN NoteCancellations(IF hit THEN [log EXCEPT ![c.target].cancel = c] ELSE log,
                           cleared, i + 1)

\* the callbacks the game schedules
UserCallback == [kind |-> "user", obj |-> Undefined]

GameCallbacks ==
    {UserCallback} \cup
    {[kind |-> k, obj |-> t] : k \in {"clearTimeout", "clearInterval"}, t \in TimerIds}

\* Component.destroy(e, delay); des throws for an Entity that was never
\* given a layer, the model makes no such call
Destroy(e, delay) ==
    /\ updateLayer[e] # Undefined
    /\ IF delay = 0 THEN onDestroyCalls.go[e] < MaxDestroy
       ELSE timers.id < MaxTimers
    /\ Commit(destroy(World, e, delay))
    /\ last' = [op |-> "destroy", e |-> e, delay |-> delay,
                again |-> (last.op = "destroy" /\ last.e = e /\ last.delay = 0),
                pending |-> DestroyTimers(World, e),
                before |-> Observable(World)]
    /\ destroyLog' = [destroyLog EXCEPT ![e] = Append(@, delay)]
    /\ timerLog' = IF delay = 0 THEN timerLog ELSE LogTimer(timers.id, "des", delay)

\* setGameTimeout(callback, delay) with a callback of the game
SetGameTimeout(callback, delay) ==
    /\ timers.id < MaxTimers
    /\ Commit(setGameTimeout(World, callback, delay))
    /\ last' = NoDestroy
    /\ timerLog' = LogTimer(timers.id, "user", delay)
    /\ UNCHANGED destroyLog

\* setGameInterval(callback, delay) with a callback of the game
SetGameInterval(callback, delay) ==
    /\ timers.id < MaxTimers
    /\ Commit(setGameInterval(World, callback, delay))
    /\ last' = NoDestroy
    /\ timerLog' = LogTimer(timers.id, "interval", delay)
    /\ UNCHANGED destroyLog

\* clearGameTimeout(id), called by the game between two ticks
ClearGameTimeout(id) ==
    /\ Commit(clearGameTimeout(World, id))
    /\ last' = NoDestroy
    /\ timerLog' = NoteCancellations(
                       timerLog, <<Cancellation(World, Undefined, "timeouts", id)>>, 1)
    /\ UNCHANGED destroyLog

\* clearGameInterval(id), called by the game between two ticks
ClearGameInterval(id) ==
    /\ Commit(clearGameInterval(World, id))
    /\ last' = NoDestroy
    /\ timerLog' = NoteCancellations(
                       timerLog, <<Cancellation(World, Undefined, "intervals", id)>>, 1)
    /\ UNCHANGED destroyLog

\* one round of the main loop's UpdateTimers(); a one-shot timer's rounds
\* are counted up to one past its delay, a repeating timer's rounds are
\* counted while it is not cancelled, and the loop is followed for
\* MaxRounds rounds of a repeating timer
UpdateTimers ==
    /\ \A id \in DOMAIN timers.intervals : timerLog[id].rounds < MaxRounds
    /\ LET w == updateTimers(World)
           log == NoteCancellations(timerLog, w.cleared, 1)
       IN /\ Commit(w)
          /\ timerLog' =
               [i \in DOMAIN log |->
                  [log[i] EXCEPT !.rounds =
                      IF log[i].kind = "interval"
                      THEN (IF log[i].cancel = NoCancel THEN @ + 1 ELSE @)
                      ELSE (IF @ > log[i].delay THEN @ ELSE @ + 1)]]
    /\ last' = NoDestroy
    /\ UNCHANGED destroyLog

\* one round of the main loop: Update(tick), then UpdateTimers(); the
\* update hooks of the game do what script says
MainLoop(script) ==
    /\ script # NoScript =>
          /\ updateLayer[script.killer] # Undefined
          /\ updateLayer[script.victim] # Undefined
          /\ onDestroyCalls.go[script.victim] < MaxDestroy
    /\ \A id \in DOMAIN timers.intervals : timerLog[id].rounds < MaxRounds
    /\ LET w == updateTimers(update(World, script))
           log == NoteCancellations(timerLog, w.cleared, 1)
       IN /\ Commit(w)
          /\ timerLog' =
               [i \in DOMAIN log |->
                  [log[i] EXCEPT !.rounds =
                      IF log[i].kind = "interval"
                      THEN (IF log[i].cancel = NoCancel THEN @ + 1 ELSE @)
                      ELSE (IF @ > log[i].delay THEN @ ELSE @ + 1)]]
          /\ destroyLog' =
               [e \in Entities |->
                  IF w.onDestroyCalls.go[e] > onDestroyCalls.go[e]
                  THEN Append(destroyLog[e], 0) ELSE destroyLog[e]]
    /\ last' = NoDestroy

\* the positions an Entity without a Collider is sent to: near the origin
\* and far from it
FarCoords == {0, 1, Exact + 2}

FarPositions == [x : FarCoords, y : FarCoords]

\* the collision operations
NextCollision ==
    \/ \E c \in ColliderIds, trigger \in BOOLEAN : AddCollider(c, trigger)
    \/ \E e \in Entities, value \in Positions : SetPosition(e, value)
    \/ \E c \in ColliderIds : UpdateCollision(c)
    \/ \E c \in ColliderIds, value \in BOOLEAN : SetEnabled(c, value)

SpecCollision == Init /\ [][NextCollision]_vars

\* the life cycle of the Entities
NextLifecycle ==
    \/ \E c \in ColliderIds, trigger \in BOOLEAN : AddCollider(c, trigger)
    \/ \E e \in Entities, layer \in Layers : GameObjectInit(e, layer)
    \/ \E c \in ColliderIds : UpdateCollision(c)
    \/ \E e \in Entities : Destroy(e, 0)

SpecLifecycle == Init /\ [][NextLifecycle]_vars

\* the Timer Service and delayed destruction
NextTimers ==
    \/ \E e \in Entities, layer \in Layers : GameObjectInit(e, layer)
    \/ \E e \in Entities, delay \in {0} \cup Delays : Destroy(e, delay)
    \/ \E delay \in Delays : SetGameTimeout(UserCallback, delay)
    \/ UpdateTimers

SpecTimers == Init /\ [][NextTimers]_vars

\* the Timer Service on its own: one-shot and repeating timers whose
\* callbacks may cancel timers
NextTimerService ==
    \/ \E callback \in GameCallbacks, delay \in Delays : SetGameTimeout(callback, delay)
    \/ \E callback \in GameCallbacks, delay \in Delays : SetGameInterval(callback, delay)
    \/ \E id \in 0..MaxTimers : ClearGameTimeout(id)
    \/ \E id \in 0..MaxTimers : ClearGameInterval(id)
    \/ UpdateTimers

SpecTimerService == Init /\ [][NextTimerService]_vars

\* attaching units to Entities
NextUnits ==
    \/ \E c \in ColliderIds, trigger \in BOOLEAN : AddCollider(c, trigger)
    \/ \E a \in AnimatorIds, e \in Entities : AddAnimator(a, e)
    \/ \E c \in ComponentIds, value \in BOOLEAN : SetEnabled(c, value)

SpecUnits == Init /\ [][NextUnits]_vars

\* Entities without Colliders, with and without a parent, being moved
NextPosition ==
    \/ \E e, p \in Entities : SetParent(e, p)
    \/ \E e \in Entities, value \in FarPositions : SetPosition(e, value)

SpecPosition == Init /\ [][NextPosition]_vars

\* the main loop over a population that is spawned, disabled and destroyed
NextUpdate ==
    \/ \E c \in ColliderIds : AddCollider(c, FALSE)
    \/ \E e \in Entities, layer \in Layers : GameObjectInit(e, layer)
    \/ \E c \in ColliderIds, value \in BOOLEAN : SetEnabled(c, value)
    \/ \E e \in Entities, value \in BOOLEAN : SetGameObjectEnabled(e, value)
    \/ \E e \in Entities : Destroy(e, 0)
    \/ \E script \in Scripts : MainLoop(script)

SpecUpdate == Init /\ [][NextUpdate]_vars

\* ------------------------------------------------------------ claims
\* the registered Colliders attached to another Entity than c's
Others(c) == {o \in Range(colliders) : gameObject[o] # gameObject[c]}

\* o can collide and collides with c, in the current state
Touching(c, o) == canCollide(World, c, o) /\ collides(World, c, o)

\* the number of callbacks of one kind delivered to this about other
CountEvents(evs, kind, this, other) ==
    Cardinality({i \in 1..Len(evs) :
        evs[i].kind = kind /\ evs[i].on = this /\ evs[i].other = other})

\* C1: updateCollision() returns true if and only if some registered
\* Collider of another Entity can collide and collides with the caller
\* while both are non-trigger, whatever the registry order and whatever
\* other Colliders are registered.
C1_BlockingIffSomeBlocker ==
    \A c \in constructed :
        updateCollision(World, c).ret
            <=> \E o \in Others(c) :
                    Touching(c, o) /\ ~isTrigger[c] /\ ~isTrigger[o]

\* C2: destroy(e) with delay 0 called twice in a row has the same effect
\* as calling it once: after the second call the layer populations, the
\* collider registry and the onDestroy counts are what the first call left.
C2_DestroyTwiceIsOnce ==
    (last.op = "destroy" /\ last.delay = 0 /\ last.again)
        => Observable(World) = last.before

\* the destroy timers of e that were pending when destroy was last called
\* and that the call had to cancel
Superseded == last.pending \cap DOMAIN timers.timeouts

\* C3: destroy(e, d2) called while destroy(e, d1) is pending, 0 < d2 < d1,
\* cancels the first timer, and the destroy action of an Entity that was
\* only ever destroyed with a delay runs at most once.
C3_DelayedDestroySupersedes ==
    /\ (/\ last.op = "destroy"
        /\ last.delay > 0
        /\ \A id \in last.pending : last.delay < timerLog[id].delay)
           => Superseded = {}
    /\ \A e \in Entities :
          (\A i \in 1..Len(destroyLog[e]) : destroyLog[e][i] > 0)
              => onDestroyCalls.go[e] <= 1

\* C4: destroy(e) with delay 0 called while destroy(e, d) is pending
\* cancels the pending timer, whatever id the timer has, and the destroy
\* action of e runs exactly once.
C4_ImmediateDestroyCancelsPending ==
    /\ (last.op = "destroy" /\ last.delay = 0) => Superseded = {}
    /\ \A e \in Entities :
          (/\ Len(destroyLog[e]) = 2
           /\ destroyLog[e][1] > 0
           /\ destroyLog[e][2] = 0)
              => onDestroyCalls.go[e] = 1

\* the Colliders whose onDestroy has run
Destroyed == {c \in ColliderIds : onDestroyCalls.col[c] > 0}

\* C7: after an Entity is destroyed no remaining Collider's overlap set
\* contains a Collider of that Entity, and the destroy delivers exactly one
\* exit to every partner that had recorded the overlap, also when only the
\* partner had recorded it.
C7_DestroyEndsEveryOverlap ==
    /\ \A c \in Destroyed : \A p \in constructed \ Destroyed :
          ~includes(collisions[p], c)
    /\ \A e \in Entities :
          (updateLayer[e] # Undefined /\ onDestroyCalls.go[e] = 0) =>
              LET w == destroy(World, e, 0)
              IN \A c \in Range(components[e]) :
                   \A p \in constructed \ Range(components[e]) :
                      includes(collisions[p], c)
                          => /\ CountEvents(w.events, "Exit", p, c) = 1
                             /\ ~includes(w.collisions[p], c)

\* how often c is in the registry
TimesRegistered(c) == Cardinality({i \in 1..Len(colliders) : colliders[i] = c})

\* C8: the registry holds every constructed Collider whose Entity has not
\* been destroyed exactly once, and no Collider of a destroyed Entity.
C8_RegistryIsTheLiveColliders ==
    \A c \in ColliderIds :
        TimesRegistered(c) =
            IF c \in constructed /\ onDestroyCalls.go[gameObject[c]] = 0
            THEN 1 ELSE 0

\* the collision pass of an axis step that tentatively puts e at p reports
\* a blocking collision: an ON_MOVED Collider of e returns true there
PassReportsBlocking(e, p) ==
    LET w == [World EXCEPT !.localPosition[e] = p]
    IN \E i \in 1..Len(goColliders[e]) :
          /\ SceneMethod(goColliders[e][i]) = COLLISION_CHECK_METHOD.ON_MOVED
          /\ updateCollision(w, goColliders[e][i]).ret

\* where the claim puts e after  e.position = value : the X step, then the
\* Y step from wherever the X step ended, each kept iff its pass is clear
AxisByAxis(e, value) ==
    LET p0 == localPosition[e]
        px == [x |-> value.x, y |-> p0.y]
        p1 == IF PassReportsBlocking(e, px) THEN p0 ELSE px
        py == [x |-> p1.x, y |-> value.y]
    IN IF PassReportsBlocking(e, py) THEN p1 ELSE py

\* C5: in the position setter of an Entity with an ON_MOVED Collider each
\* axis step is committed iff its own collision pass reports no blocking
\* collision: a blocked X step is undone and the Y step is still attempted,
\* a committed X step stays when the Y step is blocked.
C5_AxisStepsAreIndependent ==
    \A e \in Entities : \A value \in Positions :
        (Len(goColliders[e]) > 0 /\ value # localPosition[e]) =>
            LET w == setPosition(World, e, value)
            IN /\ w.localPosition[e] = AxisByAxis(e, value)
               /\ Len(w.moveLog) = 2
               /\ w.moveLog[1].blocked
                    = PassReportsBlocking(e, [x |-> value.x, y |-> localPosition[e].y])
               /\ w.moveLog[2].from = w.moveLog[1].to
               /\ \A i \in 1..2 :
                     w.moveLog[i].to =
                         IF w.moveLog[i].blocked THEN w.moveLog[i].from
                         ELSE add(w.moveLog[i].from,
                                  [x |-> w.moveLog[i].dx, y |-> w.moveLog[i].dy])

\* C5 witness: an Entity that has been moved stands where a diagonal move
\* has its X step blocked and rolled back and its Y step applied
C5_Witness ==
    \E e \in Entities : \E value \in Positions :
        /\ Len(goColliders[e]) > 0
        /\ localPosition[e] # [x |-> 0, y |-> 0]
        /\ value.x # localPosition[e].x
        /\ value.y # localPosition[e].y
        /\ LET w == setPosition(World, e, value)
           IN /\ w.moveLog[1].blocked
              /\ ~w.moveLog[2].blocked
              /\ w.localPosition[e] = [x |-> localPosition[e].x, y |-> value.y]

C9_TriggerNeverBlocks ==
    /\ \A c \in constructed : isTrigger[c] => ~updateCollision(World, c).ret
    /\ \A e \in Entities : \A value \in Positions :
          (\A c \in Range(goColliders[e]) : isTrigger[c])
              => setPosition(World, e, value).localPosition[e] = value

\* C9 witness: a trigger Collider, the only Collider of an Entity that has
\* been moved, has recorded its overlap with a non-trigger Collider it
\* still touches
C9_Witness ==
    \E c \in constructed : \E o \in Others(c) :
        /\ isTrigger[c]
        /\ ~isTrigger[o]
        /\ Touching(c, o)
        /\ includes(collisions[c], o)
        /\ goColliders[gameObject[c]] = <<c>>
        /\ localPosition[gameObject[c]] # [x |-> 0, y |-> 0]

\* the timers scheduled with a callback of the game
UserTimers == {id \in DOMAIN timerLog : timerLog[id].kind = "user"}

Intervals == {id \in DOMAIN timerLog : timerLog[id].kind = "interval"}

\* C11: a repeating timer with period p fires exactly on the advances p,
\* 2p, 3p, ... after scheduling while it is not cancelled (so after r
\* advances it has fired r \div p times and is still scheduled); once
\* clearGameInterval was called for it, also from its own callback, it
\* never fires again.
C11_IntervalFiresEveryPeriod ==
    \A id \in Intervals :
        IF timerLog[id].cancel = NoCancel
        THEN /\ fired[id] = timerLog[id].rounds \div timerLog[id].delay
             /\ id \in DOMAIN timers.intervals
        ELSE /\ fired[id] = timerLog[id].cancel.at
             /\ id \notin DOMAIN timers.intervals

\* C11 witness: a repeating timer of period 2 that has fired twice in
\* four advances, next to one that cancelled itself in its first callback
\* and has seen a later advance
C11_Witness ==
    \E a, b \in Intervals :
        /\ timerLog[a].delay = 2
        /\ timerLog[a].cancel = NoCancel
        /\ timerLog[a].rounds >= 4
        /\ fired[a] >= 2
        /\ timerLog[b].cancel.by = b
        /\ fired[b] = 1
        /\ timerLog[a].rounds > timerLog[b].rounds

\* C12: clearGameTimeout of an id that is not scheduled (never issued,
\* fired or cancelled) changes nothing, clearGameTimeout of a scheduled id
\* removes that entry and leaves every other entry as it was, and a
\* one-shot timer cancelled before it fired never fires, also when another
\* timer's callback cancelled it in the tick it was due.
C12_CancelIsQuietAndFinal ==
    /\ \A id \in 0..MaxTimers :
          LET w == clearGameTimeout(World, id)
          IN /\ id \notin DOMAIN timers.timeouts => w.timers = timers
             /\ w.timers.intervals = timers.intervals
             /\ DOMAIN w.timers.timeouts = DOMAIN timers.timeouts \ {id}
             /\ \A j \in DOMAIN w.timers.timeouts :
                   w.timers.timeouts[j] = timers.timeouts[j]
    /\ \A id \in UserTimers :
          (timerLog[id].cancel # NoCancel /\ timerLog[id].cancel.at = 0)
              => fired[id] = 0 /\ id \notin DOMAIN timers.timeouts

\* C12 witness: a one-shot timer that another timer's callback cancelled
\* in the tick it was due, that has not fired and has seen a later tick
C12_Witness ==
    \E id \in UserTimers :
        /\ timerLog[id].cancel.by # Undefined
        /\ timerLog[id].cancel.by # id
        /\ timerLog[id].cancel.at = 0
        /\ timerLog[id].cancel.left = 1
        /\ timerLog[id].rounds > timerLog[id].delay
        /\ fired[id] = 0

\* the Animators whose constructor has run, and the Entity each was made for
Animators == {a \in AnimatorIds : gameObject[a] # Undefined}

\* C13: addComponent of an Animator on an Entity that already has one
\* throws and changes nothing: the first Animator stays the Entity's
\* animation driver, the attached-units list and the Collider index are as
\* before; so an Animator is attached iff it is its Entity's driver.
C13_SecondAnimatorIsRejected ==
    /\ \A e \in Entities : \A a \in AnimatorIds :
          (animator[e] # Undefined /\ gameObject[a] = Undefined) =>
              LET w == addComponent([World EXCEPT !.gameObject[a] = e], e, a)
              IN /\ w.thrown
                 /\ w.animator = animator
                 /\ w.components = components
                 /\ w.goColliders = goColliders
    /\ \A a \in Animators :
          includes(components[gameObject[a]], a) <=> animator[gameObject[a]] = a
    /\ \A e \in Entities :
          Cardinality({i \in 1..Len(components[e]) :
                          components[e][i] \in AnimatorIds}) <= 1

\* C13 witness: an Entity with an Animator and a Collider for which a
\* second Animator was constructed and not attached
C13_Witness ==
    \E a, b \in Animators :
        /\ a # b
        /\ gameObject[a] = gameObject[b]
        /\ animator[gameObject[a]] = a
        /\ ~includes(components[gameObject[a]], b)
        /\ goColliders[gameObject[a]] # <<>>

\* C14: for an Entity without a Collider, with or without a parent chain,
\* reading position right after  position = p  returns p, and assigning the
\* current position changes nothing.
C14_PositionReadsBackAssigned ==
    \A e \in Entities :
        Len(goColliders[e]) = 0 =>
            /\ \A value \in FarPositions :
                  position(setPosition(World, e, value), e) = value
            /\ setPosition(World, e, position(World, e)).localPosition = localPosition

\* the onEnabled / onDisabled hooks among the callbacks of a call
IsEnableHook(ev) == ev.kind \in {"onEnabled", "onDisabled"}

EnableHooks(evs) == SelectSeq(evs, IsEnableHook)

\* C15: assigning enabled its current value invokes no hook; assigning a
\* different value invokes exactly one hook, onDisabled when going to
\* false and onEnabled when going to true, and inside the hook enabled
\* still reads the old value; afterwards enabled is the assigned value.
C15_OneHookBeforeTheStore ==
    \A c \in constructed : \A value \in BOOLEAN :
        LET w == setEnabled(World, c, value)
            hooks == EnableHooks(w.events)
        IN /\ w.enabled[c] = value
           /\ IF value = enabled[c] THEN w.events = <<>>
              ELSE /\ Len(hooks) = 1
                   /\ hooks[1].kind = IF value THEN "onEnabled" ELSE "onDisabled"
                   /\ hooks[1].on = c
                   /\ hooks[1].sees = enabled[c]

\* C15 witness: a Collider that was disabled while it had a recorded
\* partner; enabling it invokes its one hook, disabling it again none
C15_Witness ==
    \E c \in constructed :
        /\ ~enabled[c]
        /\ collisions[c] # <<>>
        /\ Len(EnableHooks(setEnabled(World, c, TRUE).events)) = 1
        /\ setEnabled(World, c, FALSE).events = <<>>

\* C16: disabling a Collider that has recorded partners ends every such
\* pair: its own overlap set is empty afterwards, no partner's overlap set
\* contains it, and each side that had recorded the pair got its exit.
C16_DisableEndsEveryOverlap ==
    \A c \in constructed :
        (enabled[c] /\ collisions[c] # <<>>) =>
            LET w == setEnabled(World, c, FALSE)
            IN /\ w.collisions[c] = <<>>
               /\ \A p \in constructed \ {c} : ~includes(w.collisions[p], c)
               /\ \A p \in Range(collisions[c]) :
                     CountEvents(w.events, "Exit", c, p) = 1
               /\ \A p \in constructed \ {c} :
                     includes(collisions[p], c)
                         => CountEvents(w.events, "Exit", p, c) = 1

\* the hooks of a call, as pairs of hook and receiver
Calls(evs) == [i \in 1..Len(evs) |-> [kind |-> evs[i].kind, on |-> evs[i].on]]

IsEnabledUnit(c) == enabled[c]

\* the updates the claim expects for Entity e: its own, then one per
\* enabled attached unit in attachment order
ExpectedTick(e) ==
    LET units == SelectSeq(components[e], IsEnabledUnit)
    IN <<[kind |-> "entity.update", on |-> e]>>
       \o [i \in 1..Len(units) |-> [kind |-> "update", on |-> units[i]]]

\* ... for the Entities of a layer from the i-th on, in insertion order
RECURSIVE ExpectedObjectsFrom(_, _)
ExpectedObjectsFrom(layer, i) ==
    IF i > Len(gameObjects[layer]) THEN <<>>
    ELSE (IF goEnabled[gameObjects[layer][i]]
          THEN ExpectedTick(gameObjects[layer][i]) ELSE <<>>)
         \o ExpectedObjectsFrom(layer, i + 1)

\* ... for the layers from layer on, in ascending order
RECURSIVE ExpectedLayersFrom(_)
ExpectedLayersFrom(layer) ==
    IF layer > MaxLayer THEN <<>>
    ELSE ExpectedObjectsFrom(layer, 1) \o ExpectedLayersFrom(layer + 1)

\* C17: a tick whose update hooks change nothing invokes update on the
\* enabled Entities in ascending layer index and, within a layer, in
\* insertion order; for each Entity first its own update, then update on
\* each enabled attached unit in attachment order; disabled Entities and
\* disabled units get no update.
C17_UpdateOrder ==
    Calls(update(World, NoScript).events) = ExpectedLayersFrom(0)

\* C17 witness: two spawned Entities in different layers, one of them
\* disabled, the other enabled with two attached units of which the one
\* attached first is disabled and the other is updated
C17_Witness ==
    \E e, f \in Entities :
        /\ updateLayer[e] # Undefined
        /\ updateLayer[f] # Undefined
        /\ updateLayer[e] # updateLayer[f]
        /\ includes(gameObjects[updateLayer[e]], e)
        /\ includes(gameObjects[updateLayer[f]], f)
        /\ goEnabled[e]
        /\ ~goEnabled[f]
        /\ Len(components[e]) = 2
        /\ ~enabled[components[e][1]]
        /\ enabled[components[e][2]]
        /\ Len(update(World, NoScript).events) = 2

\* how often a hook was invoked on a receiver
CountCalls(evs, kind, on) ==
    Cardinality({i \in 1..Len(evs) : evs[i].kind = kind /\ evs[i].on = on})

\* e is in the list of the layer it was spawned in
Spawned(e) ==
    updateLayer[e] # Undefined /\ includes(gameObjects[updateLayer[e]], e)

\* C18: when during the update pass an Entity's update destroys an Entity
\* of the layer being iterated, itself or another, every other enabled
\* Entity of the population still gets exactly one update in that tick.
C18_DestroyDuringUpdateSkipsNobody ==
    \A script \in Scripts \ {NoScript} :
        (/\ Spawned(script.killer)
         /\ Spawned(script.victim)
         /\ updateLayer[script.killer] = updateLayer[script.victim]
         /\ goEnabled[script.killer]) =>
            LET w == update(World, script)
            IN \A e \in Entities \ {script.victim} :
                  (Spawned(e) /\ goEnabled[e])
                      => CountCalls(w.events, "entity.update", e) = 1

\* the collision callbacks delivered to Collider c
IsCollisionCallback(ev) == ev.kind \in {"Enter", "Stay", "Exit"}

CallbacksOf(evs, c) ==
    LET mine(ev) == IsCollisionCallback(ev) /\ ev.on = c
    IN SelectSeq(evs, mine)

\* C19: an enabled EVERY_FRAME Collider attached to a spawned enabled
\* Entity has updateCollision() run once in every tick of the loop: the
\* tick delivers to it the enter/stay/exit callbacks its updateCollision()
\* would deliver, also when its own Entity never moves.
C19_EveryFrameIsCheckedEachTick ==
    \A c \in constructed :
        (/\ SceneMethod(c) = COLLISION_CHECK_METHOD.EVERY_FRAME
         /\ enabled[c]
         /\ Spawned(gameObject[c])
         /\ goEnabled[gameObject[c]]) =>
            CallbacksOf(updateTimers(update(World, NoScript)).events, c)
                = CallbacksOf(updateCollision(World, c).events, c)

\* the destroy hooks among the callbacks of a call
IsDestroyHook(ev) == ev.kind \in {"onDestroy", "entity.onDestroy"}

\* C20: destroying a spawned Entity e once removes exactly e from its
\* layer, the other Entities keeping their order, invokes onDestroy once
\* on each attached unit in attachment order and then once on e, and
\* leaves none of e's Colliders in the registry; a destroyed Entity is in
\* no layer, so no later tick updates it, and its Colliders stay
\* unregistered.
C20_DestroyRemovesAndNotifies ==
    /\ \A e \in Entities :
          (Spawned(e) /\ onDestroyCalls.go[e] = 0) =>
              LET w == destroy(World, e, 0)
                  others(x) == x # e
              IN /\ \A l \in Layers :
                       w.gameObjects[l] = SelectSeq(gameObjects[l], others)
                 /\ Calls(SelectSeq(w.events, IsDestroyHook))
                       = [i \in 1..Len(components[e]) |->
                             [kind |-> "onDestroy", on |-> components[e][i]]]
                         \o <<[kind |-> "entity.onDestroy", on |-> e]>>
                 /\ \A c \in Range(goColliders[e]) : ~includes(w.colliders, c)
                 /\ \A script \in {NoScript} \cup
                                   {sc \in Scripts \ {NoScript} :
                                       Spawned(sc.victim) /\ sc.victim # e} :
                       CountCalls(update(w, script).events, "entity.update", e) = 0
    /\ \A e \in Entities :
          onDestroyCalls.go[e] > 0 =>
              /\ \A l \in Layers : ~includes(gameObjects[l], e)
              /\ \A c \in Range(goColliders[e]) : ~includes(colliders, c)

\* C20 witness: an Entity with two attached units that was destroyed once,
\* each unit having had its onDestroy, while another Entity is still in
\* the layer it was in
C20_Witness ==
    \E e, f \in Entities :
        /\ e # f
        /\ onDestroyCalls.go[e] = 1
        /\ Len(components[e]) = 2
        /\ \A c \in Range(components[e]) : onDestroyCalls.col[c] = 1
        /\ updateLayer[f] = updateLayer[e]
        /\ Spawned(f)


\* C21: ignoring by tags is symmetric for every pair of tags, with or
\* without an entry in the ignore matrix: a pair is ignored exactly when
\* the list of one of the two tags names the other, so a tag without an
\* entry is ignored only by the tags whose own list names it; and
\* canCollide gives the same answer in both directions for every pair of
\* constructed Colliders.
C21_IgnoringIsSymmetric ==
    /\ \A s \in colliderTags, t \in colliderTags :
          /\ tagsIgnore(s, t) = tagsIgnore(t, s)
          /\ tagsIgnore(s, t) <=> (t \in ignoreTagMatrix(s) \/ s \in ignoreTagMatrix(t))
          /\ s \notin DOMAIN collisionIgnoreMatrix
               => (tagsIgnore(s, t) <=> (t \in DOMAIN collisionIgnoreMatrix
                                         /\ s \in collisionIgnoreMatrix[t]))
    /\ \A a \in constructed, b \in constructed :
          /\ isIgnoredByTags(a, b) = isIgnoredByTags(b, a)
          /\ canCollide(World, a, b) = canCollide(World, b, a)

\* an enabled pair whose tags ignore each other through the list of one
\* of them only, beside an enabled pair that can collide
C21_Witness ==
    \E a \in constructed, b \in constructed, c \in constructed :
        /\ enabled[a] /\ enabled[b] /\ enabled[c]
        /\ SceneTag(b) \in ignoreTagMatrix(SceneTag(a))
        /\ SceneTag(a) \notin ignoreTagMatrix(SceneTag(b))
        /\ ~canCollide(World, b, a)
        /\ canCollide(World, c, a)


\* ------------------------------------------------ BoxCollider.intersects
\* The sides of the boxes of the calls: 16x16 and 8x8, in tenths.
BoxSides == {80, 160}

\* the distance of the centres at which boxes of sides s and t touch
Reach(s, t) == (s + t) \div 2

\* the distances of the centres on one axis: the same centre, the two
\* distances of 15 and 20, and around each distance at which two boxes touch
BoxDistances ==
    {0, 150, 200} \cup
    UNION {{Reach(s, t) - minCollisionDistance - 1, Reach(s, t) - minCollisionDistance,
            Reach(s, t) - minCollisionDistance + 1, Reach(s, t) - 1, Reach(s, t),
            Reach(s, t) + minCollisionDistance - 1, Reach(s, t) + minCollisionDistance}
           : s \in {160}, t \in BoxSides}

Square(s) == [x |-> s, y |-> s]

\* two BoxColliders: the first 16x16 at the origin
InitBoxes ==
    /\ InitHeap
    /\ \E t \in BoxSides, dx \in BoxDistances, dy \in BoxDistances :
          probe = [op |-> "intersects",
                   a |-> boundsAt([x |-> 0, y |-> 0], Square(160), [x |-> 0, y |-> 0]),
                   b |-> boundsAt([x |-> dx, y |-> dy], Square(t), [x |-> 0, y |-> 0]),
                   out |-> <<>>]

\* a.collides(b) and b.collides(a): BoxCollider.intersects on the bounds
Intersects ==
    /\ probe.op = "intersects"
    /\ probe.out = <<>>
    /\ probe' = [probe EXCEPT !.out = <<intersects(probe.a, probe.b),
                                        intersects(probe.b, probe.a)>>]
    /\ UNCHANGED <<gameObjects, updateLayer, components, goColliders, animator,
                   goEnabled, parent, localPosition, colliders, constructed,
                   gameObject, isTrigger, enabled, collisions,
                   collisionCheckMethod, sprite, spriteRect, animatorSprite, animatorSpriteRect, timers,
                   toDestoryObjects, onDestroyCalls, fired, timerLog,
                   destroyLog, last, lobbies, currentLobby, rooms, connected,
                   currentLogLevel, clientControllers>>

NextBoxes == Intersects

SpecBoxes == InitBoxes /\ [][NextBoxes]_vars

\* how far two rects reach into each other on an axis; the gap between
\* them is the negation
Min(m, n) == IF m < n THEN m ELSE n

Max(m, n) == IF m > n THEN m ELSE n

OverlapX(a, b) == Min(maxX(a), maxX(b)) - Max(minX(a), minX(b))

OverlapY(a, b) == Min(maxY(a), maxY(b)) - Max(minY(a), minY(b))

Probed == probe.op = "intersects" /\ probe.out # <<>>

BoxAt(px, py) == boundsAt([x |-> px, y |-> py], Square(160), [x |-> 0, y |-> 0])

\* C22: BoxCollider.intersects answers the same in both argument orders,
\* answers true when the rects overlap by more than minCollisionDistance
\* on both axes and false when a gap of at least minCollisionDistance
\* separates them on some axis; 16x16 boxes centred at (0,0) and (15,15)
\* collide, boxes centred at (0,0) and (20,20) do not.
C22_IntersectsThreshold ==
    Probed =>
      LET a == probe.a
          b == probe.b
      IN /\ probe.out[1] = probe.out[2]
         /\ (OverlapX(a, b) > minCollisionDistance /\ OverlapY(a, b) > minCollisionDistance)
              => probe.out[1]
         /\ (0 - OverlapX(a, b) >= minCollisionDistance
              \/ 0 - OverlapY(a, b) >= minCollisionDistance)
              => ~probe.out[1]
         /\ (a = BoxAt(0, 0) /\ b = BoxAt(150, 150)) => probe.out[1]
         /\ (a = BoxAt(0, 0) /\ b = BoxAt(200, 200)) => ~probe.out[1]

\* the call on the boxes centred at (0,0) and (15,15) has answered
C22_Witness ==
    /\ Probed
    /\ probe.a = BoxAt(0, 0)
    /\ probe.b = BoxAt(150, 150)
    /\ probe.out = <<TRUE, TRUE>>

\* C23: two Box Colliders collide whenever the gap between their rects
\* is below minCollisionDistance on every axis, so rects that touch or
\* overlap by less than minCollisionDistance collide.
C23_InflatedIntersection ==
    Probed =>
      ((0 - OverlapX(probe.a, probe.b) < minCollisionDistance
        /\ 0 - OverlapY(probe.a, probe.b) < minCollisionDistance)
       => probe.out[1])


\* C24 as stated: a blocked axis step is rolled back and is the last axis
\* step the setter call attempts.
C24_BlockedStepAbortsTheCall ==
    \A e \in Entities : \A value \in Positions :
        (Len(goColliders[e]) > 0 /\ value # localPosition[e]) =>
            LET w == setPosition(World, e, value)
            IN \A i \in 1..Len(w.moveLog) :
                  w.moveLog[i].blocked =>
                      /\ w.moveLog[i].to = w.moveLog[i].from
                      /\ Len(w.moveLog) = i

\* C24 amended: a blocked axis step is rolled back and ends only itself:
\* the call attempts every axis step of every iteration, the step after a
\* blocked one starts from the rolled-back position with its own delta,
\* and the Entity ends where the last step left it.
C24_BlockedStepEndsOnlyItself ==
    \A e \in Entities : \A value \in Positions :
        (Len(goColliders[e]) > 0 /\ value # localPosition[e]) =>
            LET w == setPosition(World, e, value)
                n == Len(w.moveLog)
            IN /\ n = 2 * collisionIterations
               /\ w.localPosition[e] = w.moveLog[n].to
               /\ \A i \in 1..n :
                     /\ w.moveLog[i].from =
                          IF i = 1 THEN localPosition[e] ELSE w.moveLog[i - 1].to
                     /\ w.moveLog[i].blocked => w.moveLog[i].to = w.moveLog[i].from
                     /\ i % 2 = 1 => w.moveLog[i].dy = 0
                     /\ i % 2 = 0 => /\ w.moveLog[i].dx = 0
                                      /\ w.moveLog[i].dy * collisionIterations
                                           = value.y - localPosition[e].y

\* a diagonal move whose X step is blocked and rolled back and whose Y
\* step is then attempted and applied
C24_Witness ==
    \E e \in Entities : \E value \in Positions :
        /\ Len(goColliders[e]) > 0
        /\ value.x # localPosition[e].x
        /\ value.y # localPosition[e].y
        /\ LET w == setPosition(World, e, value)
           IN /\ w.moveLog[1].blocked
              /\ ~w.moveLog[2].blocked
              /\ w.localPosition[e] = [x |-> localPosition[e].x, y |-> value.y]


\* ------------------------------------------ addComponent, removeComponent
\* the units whose constructor has run
Units == constructed \cup {a \in AnimatorIds : gameObject[a] # Undefined}

\* gameObject.addComponent(component) with a unit that exists already
AttachComponent(e, c) ==
    /\ c \in Units
    /\ Len(components[e]) < MaxUnits
    /\ Len(goColliders[e]) < MaxUnits
    /\ Commit(addComponent(World, e, c))
    /\ last' = NoDestroy
    /\ UNCHANGED <<timerLog, destroyLog>>

\* gameObject.removeComponent(component)
RemoveComponent(e, c) ==
    /\ c \in Units
    /\ Commit(removeComponent(World, e, c))
    /\ last' = NoDestroy
    /\ UNCHANGED <<timerLog, destroyLog>>

\* the units of the calls: a Collider of each Entity and an Animator
AttachUnits == {c \in ColliderIds : c <= NumEntities} \cup {NumColliders + 1}

NextAttach ==
    \/ \E c \in AttachUnits \cap ColliderIds : AddCollider(c, FALSE)
    \/ \E a \in AttachUnits \cap AnimatorIds, e \in Entities : AddAnimator(a, e)
    \/ \E e \in Entities, c \in AttachUnits : AttachComponent(e, c)
    \/ \E e \in Entities, c \in AttachUnits : RemoveComponent(e, c)

SpecAttach == Init /\ [][NextAttach]_vars

Occurrences(s, x) == Cardinality({i \in 1..Len(s) : s[i] = x})

\* C25: after any sequence of addComponent and removeComponent calls
\* every unit is in the attached-units list of at most one Entity, at
\* most once, and its owner reference is that Entity.
C25_OneOwnerOnePlace ==
    \A u \in Units :
        /\ Cardinality({e \in Entities : includes(components[e], u)}) <= 1
        /\ \A e \in Entities :
              includes(components[e], u) =>
                  /\ Occurrences(components[e], u) = 1
                  /\ gameObject[u] = e

\* s without its first occurrence of x
Without(s, x) ==
    LET at == CHOOSE i \in 1..Len(s) : s[i] = x /\ \A j \in 1..(i - 1) : s[j] # x
    IN [i \in 1..(Len(s) - 1) |-> IF i < at THEN s[i] ELSE s[i + 1]]

\* C30: removeComponent(u) removes exactly u from the attached-units
\* list, and from the Collider index when u is a Collider, keeps the
\* other units in order and leaves the registry alone; when u is not
\* attached to the Entity no unit leaves either list.
C30_RemovesExactlyTheUnit ==
    \A e \in Entities : \A u \in Units :
        LET w == removeComponent(World, e, u)
        IN /\ w.colliders = colliders
           /\ w.components[e] =
                IF includes(components[e], u) THEN Without(components[e], u)
                ELSE components[e]
           /\ w.goColliders[e] =
                IF u \in ColliderIds /\ includes(goColliders[e], u)
                THEN Without(goColliders[e], u)
                ELSE goColliders[e]


\* ------------------------------------------------- sprite, spriteRect
\* the rects gameplay code assigns: the first cell of a sheet or a cell
\* of an animation
SpriteRects == {getSpriteRect(s) : s \in Sprites} \cup {SceneSpriteRect(a) : a \in AnimatorIds}

\* gameObject.sprite = s
SetSprite(e, s) ==
    /\ Commit(setSprite(World, e, s))
    /\ last' = NoDestroy
    /\ UNCHANGED <<timerLog, destroyLog>>

\* gameObject.spriteRect = r
SetSpriteRect(e, r) ==
    /\ Commit(setSpriteRect(World, e, r))
    /\ last' = NoDestroy
    /\ UNCHANGED <<timerLog, destroyLog>>

NextSprites ==
    \/ \E a \in AnimatorIds, e \in Entities : AddAnimator(a, e)
    \/ \E e \in Entities, a \in AnimatorIds : RemoveComponent(e, a)
    \/ \E e \in Entities, s \in Sprites : SetSprite(e, s)
    \/ \E e \in Entities, r \in SpriteRects : SetSpriteRect(e, r)

SpecSprites == Init /\ [][NextSprites]_vars

AttachedAnimators(e) == {a \in AnimatorIds : includes(components[e], a)}

\* C26: with an Animator attached the Entity's sprite and spriteRect read
\* as the Animator's, and assigning either writes only the Entity's own
\* fields; with no Animator attached they read as the Entity's own fields.
C26_ReadsThroughWritesOwn ==
    \A e \in Entities :
        /\ \A a \in AttachedAnimators(e) :
              /\ getSprite(World, e) = animatorSprite[a]
              /\ spriteRectOf(World, e) = animatorSpriteRect[a]
              /\ \A s \in Sprites :
                    LET w == setSprite(World, e, s)
                    IN /\ w.animatorSprite = animatorSprite
                       /\ w.animatorSpriteRect = animatorSpriteRect
                       /\ w.sprite = [sprite EXCEPT ![e] = s]
                       /\ w.spriteRect = [spriteRect EXCEPT ![e] = getSpriteRect(s)]
                       /\ getSprite(w, e) = animatorSprite[a]
              /\ \A r \in SpriteRects :
                    LET w == setSpriteRect(World, e, r)
                    IN /\ w.animatorSprite = animatorSprite
                       /\ w.animatorSpriteRect = animatorSpriteRect
                       /\ w.sprite = sprite
                       /\ w.spriteRect = [spriteRect EXCEPT ![e] = r]
                       /\ spriteRectOf(w, e) = animatorSpriteRect[a]
        /\ AttachedAnimators(e) = {} =>
              /\ getSprite(World, e) = sprite[e]
              /\ spriteRectOf(World, e) = spriteRect[e]


\* ------------------------------------------------------ jelloLobby.js
\* the variables of the engine, which the lobby server does not touch
engineVars ==
    <<gameObjects, updateLayer, components, goColliders, animator, goEnabled,
      parent, localPosition, colliders, constructed, gameObject, isTrigger,
      enabled, collisions, collisionCheckMethod, sprite, spriteRect, animatorSprite,
      animatorSpriteRect, timers, toDestoryObjects, onDestroyCalls, fired,
      timerLog, destroyLog, last, probe>>

\* new Lobby(...).controllers: no controller
NoControllers == [i \in {} |-> 0]

\* lobby.removeController(id) for each id of ids
removeControllers(controllers, ids) ==
    [i \in DOMAIN controllers \ {ids[k] : k \in DOMAIN ids} |-> controllers[i]]

\* socket.on("host lobby"): new Lobby(socket, lobbyName, options, limit),
\* whose id is the next value of generateId, and socket.join
HostLobby(socket, limit) ==
    /\ connected[socket]
    /\ Len(lobbies) < MaxLobbies
    /\ lobbies' = Append(lobbies, [host |-> socket, limit |-> limit,
                                   controllers |-> NoControllers])
    /\ currentLobby' = [currentLobby EXCEPT ![socket] = Len(lobbies) + 1]
    /\ rooms' = [rooms EXCEPT ![socket] = @ \cup {Len(lobbies) + 1}]
    /\ UNCHANGED <<connected, currentLogLevel, clientControllers>>
    /\ UNCHANGED engineVars

\* socket.on("connect lobby"): throws for an unknown id, joins otherwise
ConnectLobby(socket, id) ==
    /\ connected[socket]
    /\ IF id \notin DOMAIN lobbies
       THEN UNCHANGED <<currentLobby, rooms>>
       ELSE /\ rooms' = [rooms EXCEPT ![socket] = @ \cup {id}]
            /\ currentLobby' = [currentLobby EXCEPT ![socket] = id]
    /\ UNCHANGED <<lobbies, connected, currentLogLevel, clientControllers>>
    /\ UNCHANGED engineVars

\* socket.on("disconnect"): the socket's controllers are removed from its
\* current lobby and the socket leaves that lobby's room; socket.io takes
\* a disconnected socket out of every room
Disconnect(socket) ==
    /\ connected[socket]
    /\ connected' = [connected EXCEPT ![socket] = FALSE]
    /\ rooms' = [rooms EXCEPT ![socket] = {}]
    /\ lobbies' = IF currentLobby[socket] = Undefined THEN lobbies
                  ELSE [lobbies EXCEPT ![currentLobby[socket]].controllers =
                           removeControllers(@, clientControllers[socket])]
    /\ UNCHANGED <<currentLobby, currentLogLevel, clientControllers>>
    /\ UNCHANGED engineVars

NextLobby ==
    \/ \E socket \in Sockets, limit \in Limits : HostLobby(socket, limit)
    \/ \E socket \in Sockets, id \in 1..MaxLobbies : ConnectLobby(socket, id)
    \/ \E socket \in Sockets : Disconnect(socket)

SpecLobby == Init /\ [][NextLobby]_vars

\* the sockets in the room of lobby id other than its host
Clients(id) == {s \in Sockets : id \in rooms[s] /\ s # lobbies[id].host}

\* C27: the client sockets joined to a lobby are never more than the
\* connectionLimit the lobby was hosted with.
C27_LobbyNeverOverfull ==
    \A id \in DOMAIN lobbies : Cardinality(Clients(id)) <= lobbies[id].limit


\* the calls that deliver collision callbacks
CallbackRuns ==
    {updateCollision(World, c).events : c \in constructed}
    \cup {setEnabled(World, c, value).events : c \in constructed, value \in BOOLEAN}
    \cup {setPosition(World, e, value).events : e \in Entities, value \in Positions}

\* s without x, in order
Except(s, x) == SelectSeq(s, LAMBDA y : y # x)

\* C28: every enter, stay and exit callback is of the family the querying
\* Collider's own trigger flag selects, whatever the other Collider's
\* flag; it goes to the owning Entity first and then to every attached
\* unit but the querying Collider, in attachment order; and no callback
\* is about a Collider of the same Entity.
C28_OwnFlagOwnEntityFirst ==
    \A evs \in CallbackRuns : \A i \in 1..Len(evs) :
        IsCollisionCallback(evs[i]) =>
            /\ evs[i].trigger = isTrigger[evs[i].on]
            /\ evs[i].to.gameObject = gameObject[evs[i].on]
            /\ evs[i].to.components
                 = Except(components[gameObject[evs[i].on]], evs[i].on)
            /\ gameObject[evs[i].other] # gameObject[evs[i].on]

\* a trigger Collider meets a non-trigger one and its onTrigger* callback
\* goes to its Entity and to another unit of that Entity, while a second
\* Collider of the same Entity stands at the same place
C28_Witness ==
    \E c \in constructed :
        LET evs == updateCollision(World, c).events
        IN /\ \E d \in constructed \ {c} : gameObject[d] = gameObject[c]
           /\ \E i \in 1..Len(evs) :
                 /\ evs[i].kind = "Enter"
                 /\ evs[i].trigger
                 /\ ~isTrigger[evs[i].other]
                 /\ Len(evs[i].to.components) > 0


\* ------------------------------------------- collisionCheckMethod
Methods ==
    {COLLISION_CHECK_METHOD.EVERY_FRAME, COLLISION_CHECK_METHOD.ON_MOVED,
     COLLISION_CHECK_METHOD.MANUAL}

\* non-trigger Colliders of every check method, moved and checked by hand
NextModes ==
    \/ \E c \in ColliderIds, method \in Methods : AddColliderWith(c, FALSE, method)
    \/ \E e \in Entities, value \in Positions : SetPosition(e, value)
    \/ \E c \in ColliderIds : UpdateCollision(c)

SpecModes == Init /\ [][NextModes]_vars

OnMoved(c) == collisionCheckMethod[c] = COLLISION_CHECK_METHOD.ON_MOVED

\* C29: a position change checks only the ON_MOVED Colliders of the
\* moved Entity: every callback of the call is one of theirs and no other
\* overlap set changes; an Entity whose Colliders are all MANUAL or
\* EVERY_FRAME is put at the assigned position with no callback, no
\* blocked step and no overlap set changed.
C29_OnlyOnMovedIsChecked ==
    \A e \in Entities : \A value \in Positions :
        (Len(goColliders[e]) > 0 /\ value # localPosition[e]) =>
            LET w == setPosition(World, e, value)
            IN /\ \A i \in 1..Len(w.events) :
                     /\ includes(goColliders[e], w.events[i].on)
                     /\ OnMoved(w.events[i].on)
               /\ \A c \in ColliderIds :
                     w.collisions[c] # collisions[c]
                         => includes(goColliders[e], c) /\ OnMoved(c)
               /\ (\A c \in Range(goColliders[e]) : ~OnMoved(c)) =>
                     /\ w.localPosition[e] = value
                     /\ w.events = <<>>
                     /\ w.collisions = collisions
                     /\ \A i \in 1..Len(w.moveLog) : ~w.moveLog[i].blocked

\* an Entity with a MANUAL and an EVERY_FRAME Collider and no other can
\* be assigned the position of another Entity's non-trigger Collider
\* that its Colliders can collide with
C29_Witness ==
    \E e \in Entities : \E value \in Positions :
        /\ value # localPosition[e]
        /\ \E c \in Range(goColliders[e]) :
              collisionCheckMethod[c] = COLLISION_CHECK_METHOD.MANUAL
        /\ \E c \in Range(goColliders[e]) :
              collisionCheckMethod[c] = COLLISION_CHECK_METHOD.EVERY_FRAME
        /\ \A c \in Range(goColliders[e]) : ~OnMoved(c)
        /\ LET w == setPosition(World, e, value)
           IN /\ w.localPosition[e] = value
              /\ \E c \in Range(goColliders[e]) : \E d \in constructed :
                    /\ gameObject[d] # e
                    /\ ~isTrigger[d]
                    /\ canCollide(w, c, d)
                    /\ collides(w, c, d)


\* ------------------------------------- callbacks that destroy Entities
\* the script can run: both Entities are in the population
CanRun(script) ==
    script # NoScript =>
        /\ updateLayer[script.killer] # Undefined
        /\ updateLayer[script.victim] # Undefined
        /\ onDestroyCalls.go[script.victim] < MaxDestroy

\* collider.updateCollision() while the enter callbacks of the game do
\* what script says
UpdateCollisionWith(c, script) ==
    /\ c \in constructed
    /\ CanRun(script)
    /\ LET w == updateCollision([World EXCEPT !.onEnter = script], c)
       IN /\ Commit(w)
          /\ destroyLog' =
               [e \in Entities |->
                  IF w.onDestroyCalls.go[e] > onDestroyCalls.go[e]
                  THEN Append(destroyLog[e], 0) ELSE destroyLog[e]]
    /\ last' = NoDestroy
    /\ UNCHANGED timerLog

NextCallbacks ==
    \/ \E c \in ColliderIds : AddCollider(c, FALSE)
    \/ \E e \in Entities : GameObjectInit(e, 0)
    \/ \E e \in Entities, value \in Positions : SetPosition(e, value)
    \/ \E c \in ColliderIds, script \in Scripts : UpdateCollisionWith(c, script)

SpecCallbacks == Init /\ [][NextCallbacks]_vars

\* C31: when a callback of a collision pass destroys an Entity, the pass
\* still reads every other Collider that was registered and stays
\* registered exactly once.
C31_PassSkipsNobody ==
    \A c \in Range(colliders) : \A script \in Scripts :
        CanRun(script) =>
            LET w == updateCollision([World EXCEPT !.onEnter = script], c)
            IN \A d \in (Range(w.colliders) \cap Range(colliders)) \ {c} :
                  Occurrences(w.visited, d) = 1

\* C32: once the onDestroy of an Entity has run, no enter, stay or exit
\* callback goes to it or its units and the overlap sets of its Colliders
\* do not grow: neither later in the collision pass whose enter callback
\* destroyed it, nor in a later pass or enabled assignment of a Collider
\* of another Entity.
C32_DestroyedHearsNothing ==
    /\ \A c \in Range(colliders) : \A script \in Scripts :
          CanRun(script) =>
              LET w == updateCollision([World EXCEPT !.onEnter = script], c)
              IN /\ \A i \in 1..Len(w.events) : \A j \in (i + 1)..Len(w.events) :
                       (w.events[i].kind = "entity.onDestroy"
                        /\ IsCollisionCallback(w.events[j]))
                           => w.events[j].to.gameObject # w.events[i].on
                 /\ \A e \in Entities : \A d \in Range(goColliders[e]) :
                       (w.onDestroyCalls.go[e] > 0 /\ onDestroyCalls.go[e] > 0)
                           => Len(w.collisions[d]) <= Len(collisions[d])
    /\ \A e \in Entities : \A c \in constructed :
          (onDestroyCalls.go[e] > 0 /\ gameObject[c] # e) =>
              \A evs \in {updateCollision(World, c).events,
                           setEnabled(World, c, FALSE).events} :
                  \A i \in 1..Len(evs) :
                      IsCollisionCallback(evs[i]) => evs[i].to.gameObject # e


\* the overlap set of Collider a when the k-th callback of evs is about to
\* be delivered: as the last callback to a left it, or as the call found it
SetBefore(evs, k, a) ==
    LET earlier == {i \in 1..(k - 1) : IsCollisionCallback(evs[i]) /\ evs[i].on = a}
    IN IF earlier = {} THEN collisions[a]
       ELSE evs[CHOOSE i \in earlier : \A j \in earlier : j <= i].set

\* C33: a Collider receives an exit callback about another only while its
\* overlap set contains that other, and the exit takes exactly that other
\* out of the set, whether its own collision pass, a position assignment
\* or the disabling of the other Collider delivers the exit.
C33_ExitOnlyForRecordedPairs ==
    \A evs \in CallbackRuns : \A k \in 1..Len(evs) :
        (IsCollisionCallback(evs[k]) /\ evs[k].kind = "Exit") =>
            /\ includes(SetBefore(evs, k, evs[k].on), evs[k].other)
            /\ evs[k].set = Without(SetBefore(evs, k, evs[k].on), evs[k].other)


\* the registered Colliders of other Entities that Collider c overlaps in
\* heap w
Overlapped(w, c) ==
    {d \in Range(w.colliders) :
        /\ w.gameObject[d] # w.gameObject[c]
        /\ canCollide(w, c, d)
        /\ collides(w, c, d)}

\* C34: when the position setter returns, the overlap set of every
\* ON_MOVED Collider of the moved Entity is the set of registered
\* Colliders of other Entities it can collide with and collides with at
\* the position the Entity ends at, rolled-back steps included.
C34_OverlapSetsAreCurrent ==
    \A e \in Entities : \A value \in Positions :
        (Len(goColliders[e]) > 0 /\ value # localPosition[e]) =>
            LET w == setPosition(World, e, value)
            IN \A c \in Range(goColliders[e]) :
                  OnMoved(c) => Range(w.collisions[c]) = Overlapped(w, c)


\* C36: whatever is assigned to a unit's enabled flag and to its Entity's,
\* onDisabled is invoked only on a unit whose own flag is true and
\* onEnabled only on a unit whose own flag is false, so the two alternate.
C36_HooksAlternate ==
    \A e \in Entities : \A c \in Range(components[e]) : \A value \in BOOLEAN :
        \A evs \in {setEnabled(World, c, value).events,
                     setGameObjectEnabled(World, e, value).events} :
            \A i \in 1..Len(evs) :
                (IsEnableHook(evs[i]) /\ evs[i].on = c) =>
                    /\ evs[i].kind = "onDisabled" => enabled[c]
                    /\ evs[i].kind = "onEnabled" => ~enabled[c]


\* C35: the animation-driver reference of an Entity is null or a unit of
\* its attached-units list; an Entity whose Animator has been removed
\* takes a new Animator and its sprite getter returns its own sprite.
C35_DriverIsAttachedOrNull ==
    \A e \in Entities :
        /\ animator[e] # Undefined => includes(components[e], animator[e])
        /\ AttachedAnimators(e) = {} =>
              /\ getSprite(World, e) = sprite[e]
              /\ \A a \in AnimatorIds : ~addComponent(World, e, a).thrown

\* ------------------------------------------------ BoxCollider.bounds
\* how many times the bounds of one collider are read
MaxReads == 2

\* the sizes an Entity scales its collider by, and the offsets of a box
EntitySizes == {1, 2}

BoxOffsets == {0, 30}

\* get bounds() of the BoxCollider b, resizeWithParent included: size and
\* offset are the collider's own Vector2 objects, so the products are
\* stored in them; the Rect is appended to the reads
getBounds(b) ==
    LET size == IF b.resizeWithParent
                THEN [x |-> fl(b.size.x * b.gameObjectSize.x),
                      y |-> fl(b.size.y * b.gameObjectSize.y)]
                ELSE b.size
        offset == IF b.resizeWithParent
                  THEN [x |-> fl(b.offset.x * b.gameObjectSize.x),
                        y |-> fl(b.offset.y * b.gameObjectSize.y)]
                  ELSE b.offset
    IN [b EXCEPT !.size = size, !.offset = offset,
                 !.reads = Append(@, boundsAt(b.position, size, offset))]

\* new BoxCollider(tag, size, offset) attached to an Entity of some size
\* at some position, resizeWithParent set or not
InitBounds ==
    /\ InitHeap
    /\ \E s \in BoxSides, ox \in BoxOffsets, oy \in BoxOffsets,
          gx \in EntitySizes, gy \in EntitySizes,
          px \in {0, 150}, r \in BOOLEAN :
          probe = [op |-> "bounds",
                   size |-> Square(s), offset |-> [x |-> ox, y |-> oy],
                   configured |-> [size |-> Square(s), offset |-> [x |-> ox, y |-> oy]],
                   resizeWithParent |-> r,
                   gameObjectSize |-> [x |-> gx, y |-> gy],
                   position |-> [x |-> px, y |-> 0],
                   reads |-> <<>>]

\* collider.bounds
ReadBounds ==
    /\ probe.op = "bounds"
    /\ Len(probe.reads) < MaxReads
    /\ probe' = getBounds(probe)
    /\ UNCHANGED <<gameObjects, updateLayer, components, goColliders, animator,
                   goEnabled, parent, localPosition, colliders, constructed,
                   gameObject, isTrigger, enabled, collisions,
                   collisionCheckMethod, sprite, spriteRect, animatorSprite, animatorSpriteRect, timers,
                   toDestoryObjects, onDestroyCalls, fired, timerLog,
                   destroyLog, last, lobbies, currentLobby, rooms, connected,
                   currentLogLevel, clientControllers>>

NextBounds == ReadBounds

SpecBounds == InitBounds /\ [][NextBounds]_vars

\* C37: reading the bounds of a Box Collider leaves its configured size and
\* offset as they were, consecutive reads return the same Rect, and that
\* Rect has the configured size and is centred on the Entity's position
\* plus the offset, also for a collider that scales with an Entity whose
\* size is not 1.
C37_BoundsIsPureRead ==
    probe.op = "bounds" =>
        /\ probe.size = probe.configured.size
        /\ probe.offset = probe.configured.offset
        /\ \A i, j \in 1..Len(probe.reads) : probe.reads[i] = probe.reads[j]
        /\ \A i \in 1..Len(probe.reads) :
              /\ probe.reads[i].w = probe.configured.size.x
              /\ probe.reads[i].h = probe.configured.size.y
              /\ 2 * probe.reads[i].x + probe.reads[i].w
                    = 2 * (probe.position.x + probe.configured.offset.x)
              /\ 2 * probe.reads[i].y + probe.reads[i].h
                    = 2 * (probe.position.y + probe.configured.offset.y)

\* ------------------------------------------- jelloLobby.js controllers
\* how many controllers a client names
MaxControllers == 1

\* how many controllers a socket registers before it disconnects
MaxRegistrations == 1

LocalIds == 1..MaxControllers

\* exports.logLevels
logLevels == [None |-> 0, Normal |-> 1, Debug |-> 2, All |-> 3]

LogLevels == {logLevels.None, logLevels.Normal, logLevels.Debug, logLevels.All}

\* the keys and the values of the inputs of a controller
Keys == {"fire"}

Values == {0, 1}

\* Controller.toId(socket, controllerId)
toId(socket, controllerId) == <<socket, controllerId>>

\* exports.setLogLevel
SetLogLevel(logLevel) ==
    /\ currentLogLevel' = logLevel
    /\ UNCHANGED <<lobbies, currentLobby, rooms, connected, clientControllers>>
    /\ UNCHANGED engineVars

\* socket.on("new controller"): new Controller(socket, controller), pushed
\* on clientControllers and added to the current lobby
NewController(socket, id) ==
    /\ connected[socket]
    /\ Len(clientControllers[socket]) < MaxRegistrations
    /\ IF currentLobby[socket] = Undefined
       THEN UNCHANGED <<lobbies, clientControllers>>
       ELSE /\ clientControllers' =
                  [clientControllers EXCEPT ![socket] = Append(@, toId(socket, id))]
            /\ lobbies' =
                  [lobbies EXCEPT ![currentLobby[socket]].controllers =
                      [i \in DOMAIN @ \cup {toId(socket, id)} |->
                          IF i = toId(socket, id)
                          THEN [socketId |-> socket,
                                buttons |-> [k \in Keys |-> 0],
                                axes |-> [k \in Keys |-> 0]]
                          ELSE @[i]]]
    /\ UNCHANGED <<currentLobby, rooms, connected, currentLogLevel>>
    /\ UNCHANGED engineVars

\* what a run of the "update controller" handler leaves: whether it threw,
\* the lobbies, and the messages emitted to the room of a lobby
Handled(thrown, ls, emitted) ==
    [thrown |-> thrown, lobbies |-> ls, emitted |-> emitted]

\* socket.on("update controller", (id, key, value, isButton) => ...):
\* reading controller.buttons or controller.axes of an undefined
\* controller throws a TypeError
updateController(socket, id, key, value, isButton) ==
    IF currentLobby[socket] = Undefined THEN Handled(FALSE, lobbies, <<>>)
    ELSE LET lobby == currentLobby[socket]
             known == toId(socket, id) \in DOMAIN lobbies[lobby].controllers
         IN IF ~known /\ currentLogLevel >= 2 THEN Handled(FALSE, lobbies, <<>>)
            ELSE IF ~known THEN Handled(TRUE, lobbies, <<>>)
            ELSE Handled(FALSE,
                         IF isButton
                         THEN [lobbies EXCEPT
                                 ![lobby].controllers[toId(socket, id)].buttons[key] = value]
                         ELSE [lobbies EXCEPT
                                 ![lobby].controllers[toId(socket, id)].axes[key] = value],
                         <<[room |-> lobby,
                            message |-> <<"update controller", toId(socket, id),
                                          key, value, isButton>>]>>)

UpdateController(socket, id, key, value, isButton) ==
    /\ connected[socket]
    /\ lobbies' = updateController(socket, id, key, value, isButton).lobbies
    /\ UNCHANGED <<currentLobby, rooms, connected, currentLogLevel, clientControllers>>
    /\ UNCHANGED engineVars

\* the sockets that send controller messages: a host and a client
Players == 1..2

NextControllers ==
    \/ \E socket \in Players : HostLobby(socket, MaxLimit)
    \/ \E socket \in Players, id \in 1..MaxLobbies : ConnectLobby(socket, id)
    \/ \E socket \in Players : Disconnect(socket)
    \/ \E logLevel \in LogLevels : SetLogLevel(logLevel)
    \/ \E socket \in Players, id \in LocalIds : NewController(socket, id)
    \/ \E socket \in Players, id \in LocalIds, key \in Keys, value \in Values,
          isButton \in BOOLEAN : UpdateController(socket, id, key, value, isButton)

SpecControllers == Init /\ [][NextControllers]_vars

\* C38: an "update controller" message naming a controller the sender's
\* current lobby does not know is ignored at every log level: the handler
\* throws nothing, no controller state of a lobby changes and nothing is
\* relayed to the other sockets.
C38_UnknownControllerIsIgnored ==
    \A socket \in Sockets, id \in LocalIds, key \in Keys, value \in Values,
       isButton \in BOOLEAN :
        (/\ connected[socket]
         /\ currentLobby[socket] # Undefined
         /\ toId(socket, id) \notin DOMAIN lobbies[currentLobby[socket]].controllers)
        => LET r == updateController(socket, id, key, value, isButton)
           IN /\ ~r.thrown
              /\ r.lobbies = lobbies
              /\ r.emitted = <<>>

====
